---- MODULE Spec2Model ----
(***************************************************************************)
(* Term algebra and build validation of fipy/terms/term.py.                *)
(*                                                                         *)
(* Terms are objects on a heap (a sequence; a term's identity is its       *)
(* index).  Every operator of class Term is an operator of this module     *)
(* that takes the heap and the operands and yields the new heap, the       *)
(* returned value and the exception raised, if any.  The program holds one *)
(* equation, `eq`, and combines it with numbers, with itself and with      *)
(* newly constructed terms; `last` records the last call and its outcome;   *)
(* `applied` is the 'applied' flag of each boundary condition; `vanLeer`   *)
(* is a VanLeerConvectionTerm of fipy/terms/vanLeerConvectionTerm.py with  *)
(* the last call made on it.                                               *)
(***************************************************************************)
EXTENDS Integers, Sequences, FiniteSets, TLC

VARIABLES heap, eq, last, applied, vanLeer

vars == <<heap, eq, last, applied, vanLeer>>

(***************************************************************************)
(* Bounds of the model.                                                    *)
(***************************************************************************)
MaxTerms == 3

MaxEqTerms == 5

MaxCacheTerms == 2

MaxBuildTerms == 3

MaxSumTerms == 7

MaxGrad == 2

(***************************************************************************)
(* Python numbers: int and float, the value kept as the fraction n/d in    *)
(* lowest terms with d > 0.                                                *)
(***************************************************************************)
RECURSIVE GCD(_, _)
GCD(a, b) == IF b = 0 THEN a ELSE GCD(b, a % b)

Abs(a) == IF a < 0 THEN -a ELSE a

Norm(ty, n, d) ==
    LET s == IF d < 0 THEN -1 ELSE 1
        g == GCD(Abs(n), Abs(d))
    IN  [ty |-> ty, n |-> (s * n) \div g, d |-> (s * d) \div g]

PyInt(i) == [ty |-> "int", n |-> i, d |-> 1]

PyFloat(n, d) == Norm("float", n, d)

JoinTy(a, b) == IF a = "float" \/ b = "float" THEN "float" ELSE "int"

\* a * b of two Python numbers
NumMul(a, b) == Norm(JoinTy(a.ty, b.ty), a.n * b.n, a.d * b.d)

\* -a of a Python number
NumNeg(a) == [a EXCEPT !.n = -a.n]

\* a + b of two Python numbers
NumAdd(a, b) == Norm(JoinTy(a.ty, b.ty), a.n * b.d + b.n * a.d, a.d * b.d)

\* a / b of a Python number by a float that is not zero
NumDiv(a, b) == Norm("float", a.n * b.d, a.d * b.n)

\* a == 0 of a Python number (0 == 0.0 is True)
NumIsZero(a) == a.n = 0

\* numeric equality of Python numbers (2 == 2.0 is True)
NumEq(a, b) == a.n = b.n /\ a.d = b.d

(***************************************************************************)
(* Python values handed to an operator: a number, a reference to a term,   *)
(* a string (standing for any value that is neither), or None.             *)
(***************************************************************************)
NumVal(x) == [tag |-> "num", num |-> x, id |-> 0]

TermRef(i) == [tag |-> "term", num |-> PyInt(0), id |-> i]

StrVal == [tag |-> "str", num |-> PyInt(0), id |-> 0]

NoneVal == [tag |-> "None", num |-> PyInt(0), id |-> 0]

(***************************************************************************)
(* Coefficients: a single number ("scalar", one element), a tuple, a list  *)
(* or a numerix array of numbers.                                          *)
(***************************************************************************)
Scalar(x) == [shape |-> "scalar", elems |-> <<x>>]

Tuple(s) == [shape |-> "tuple", elems |-> s]

List(s) == [shape |-> "list", elems |-> s]

SeqTy(s) == IF \E i \in 1..Len(s) : s[i].ty = "float" THEN "float" ELSE "int"

\* numerix.array(seq): one element type for the whole array
Array(s) == [shape |-> "array", elems |-> [i \in 1..Len(s) |-> [s[i] EXCEPT !.ty = SeqTy(s)]]]

RECURSIVE Repeat(_, _)
Repeat(s, k) == IF k <= 0 THEN <<>> ELSE s \o Repeat(s, k - 1)

None == "None"

NoVar == None

NoErr == None

TypeError == "TypeError"

ZeroDivisionError == "ZeroDivisionError"

NotImplementedError == "NotImplementedError"

MulError == "Must multiply terms by int or float."

BareException == "Exception"

NeedVarError == "The solution variable needs to be specified"

MixError == "Terms with explicit Variables cannot mix with Terms with implicit Variables"

CountError == "Different number of solution variables and equations."

NoVarAllowedError == "The solution variable should not be specified."

\* a matrix, rows of numbers, with its right-hand side
LinearSystem(matrix, RHSvector) == [matrix |-> matrix, RHSvector |-> RHSvector]

\* no system assembled, or one the doctests do not show
Unassembled == LinearSystem(<<>>, <<>>)

\* the result of a call: the heap after it, the value returned (and the second value
\* of a returned pair), the exception raised, the variable the call solved for, if it
\* solved, the calls it made on its collaborators, in order, and the system it handed
\* to the solver
Return(h, v) ==
    [h |-> h, ret |-> v, ret2 |-> NoneVal, err |-> NoErr, solved |-> None, trace |-> <<>>,
     stored |-> Unassembled]

Raise(h, e) ==
    [h |-> h, ret |-> NoneVal, ret2 |-> NoneVal, err |-> e, solved |-> None, trace |-> <<>>,
     stored |-> Unassembled]

(***************************************************************************)
(* class Term                                                              *)
(***************************************************************************)
\* a matrix or right-hand side: the one self._buildMatrix assembles for `var` and `dt`;
\* NoSystem is None
System(var, dt) == [var |-> var, dt |-> dt]

NoSystem == System(None, PyInt(0))

\* Term.__init__(self, coeff, var): the fields of a new term
TermInit(cls, coeff, var) ==
    [cls |-> cls, coeff |-> coeff, geomCoeff |-> None,
     _cacheMatrix |-> FALSE, matrix |-> NoSystem,
     _cacheRHSvector |-> FALSE, RHSvector |-> NoSystem,
     var |-> var, term |-> 0, other |-> NoneVal]

\* self.__class__(coeff, var=var): allocate the new term
New(h, cls, coeff, var) == Return(Append(h, TermInit(cls, coeff, var)), TermRef(Len(h) + 1))

IsLeaf(h, i) == h[i].cls \notin {"_BinaryTerm", "_CoupledBinaryTerm"}

IsNumber(v) == v.tag = "num"

IsTerm(v) == v.tag = "term"

\* other * self.coeff for a number `k`: Python repeats a tuple or list `k` times when
\* `k` is an int and refuses a float; a number or an array is multiplied
CoeffTimesFails(k, c) == c.shape \in {"tuple", "list"} /\ k.ty = "float"

CoeffTimes(k, c) ==
    CASE c.shape = "scalar" -> Scalar(NumMul(k, c.elems[1]))
      [] c.shape = "array" -> Array([i \in 1..Len(c.elems) |-> NumMul(k, c.elems[i])])
      [] OTHER -> [shape |-> c.shape, elems |-> Repeat(c.elems, k.n)]

\* -self.coeff, and -numerix.array(self.coeff) for a tuple or list
CoeffNeg(c) ==
    IF c.shape \in {"tuple", "list"}
    THEN Array([i \in 1..Len(c.elems) |-> NumNeg(c.elems[i])])
    ELSE [c EXCEPT !.elems = [i \in 1..Len(c.elems) |-> NumNeg(c.elems[i])]]

\* 1 / other for a number: floor division for an int (no true division is imported)
OneOver(k) ==
    IF k.ty = "int"
    THEN PyInt(IF k.n = 1 THEN 1 ELSE IF k.n > 1 THEN 0 ELSE -1)
    ELSE PyFloat(k.d, k.n)

(***************************************************************************)
(* _BinaryTerm and _CoupledBinaryTerm (fipy/terms/binaryTerm.py and        *)
(* coupledBinaryTerm.py), as the doctests of Term._test show them.         *)
(***************************************************************************)
\* the leaf terms of a term tree
RECURSIVE LeavesOf(_, _)
LeavesOf(h, i) ==
    IF IsLeaf(h, i) THEN {i}
    ELSE LeavesOf(h, h[i].term)
            \cup (IF IsTerm(h[i].other) THEN LeavesOf(h, h[i].other.id) ELSE {})

\* whether the (sub)equation has a bound variable; a sum holds only terms that agree
RECURSIVE HasVar(_, _)
HasVar(h, i) == IF IsLeaf(h, i) THEN h[i].var # NoVar ELSE HasVar(h, h[i].term)

AppendNew(s, t) == IF \E k \in 1..Len(s) : s[k] = t THEN s ELSE Append(s, t)

RECURSIVE Merge(_, _)
Merge(s, t) == IF t = <<>> THEN s ELSE Merge(AppendNew(s, Head(t)), Tail(t))

\* the bound variables of a term tree, in the order first met, without repeats
RECURSIVE BoundVars(_, _)
BoundVars(h, i) ==
    IF IsLeaf(h, i)
    THEN IF h[i].var = NoVar THEN <<>> ELSE <<h[i].var>>
    ELSE Merge(BoundVars(h, h[i].term),
               IF IsTerm(h[i].other) THEN BoundVars(h, h[i].other.id) ELSE <<>>)

\* Term._getCoupledTerms: the sub-equations of a term
RECURSIVE _getCoupledTerms(_, _)
_getCoupledTerms(h, i) ==
    IF h[i].cls = "_CoupledBinaryTerm"
    THEN _getCoupledTerms(h, h[i].term) \o _getCoupledTerms(h, h[i].other.id)
    ELSE <<i>>

Composite(cls, term, other) ==
    [TermInit(cls, Scalar(PyFloat(1, 1)), NoVar) EXCEPT !.term = term, !.other = other]

\* a bound term combined with an unbound term
Mixed(h, term, other) == IsTerm(other) /\ HasVar(h, term) # HasVar(h, other.id)

\* _BinaryTerm(term, other): other is a term or a number
_BinaryTerm(h, term, other) ==
    IF Mixed(h, term, other)
    THEN Raise(h, MixError)
    ELSE Return(Append(h, Composite("_BinaryTerm", term, other)), TermRef(Len(h) + 1))

\* fewer unknowns than equations
TooFewVars(h, term, other) ==
    Len(Merge(BoundVars(h, term), BoundVars(h, other.id)))
        < Len(_getCoupledTerms(h, term)) + Len(_getCoupledTerms(h, other.id))

\* _CoupledBinaryTerm(term, other): other is a term
_CoupledBinaryTerm(h, term, other) ==
    IF Mixed(h, term, other)
    THEN Raise(h, MixError)
    ELSE IF TooFewVars(h, term, other)
    THEN Raise(h, CountError)
    ELSE Return(Append(h, Composite("_CoupledBinaryTerm", term, other)), TermRef(Len(h) + 1))

(***************************************************************************)
(* The operators of class Term.  A call that raises leaves the heap as it  *)
(* was: what it allocated before raising is unreachable.                   *)
(***************************************************************************)
\* __add__ without the test for zero: every sum is a new node
AddAlwaysComposite(h, self, other) == _BinaryTerm(h, self, other)

\* __add__ that makes the node of the sum without checking the variables of its branches
AddDeferred(h, self, other) ==
    IF IsNumber(other) /\ NumIsZero(other.num)
    THEN Return(h, TermRef(self))
    ELSE Return(Append(h, Composite("_BinaryTerm", self, other)), TermRef(Len(h) + 1))

\* Term.__add__ and Term.__radd__
__add__(h, self, other) ==
    IF IsNumber(other) /\ NumIsZero(other.num)
    THEN Return(h, TermRef(self))
    ELSE _BinaryTerm(h, self, other)

\* __neg__ without the branch for tuples and lists: Python has no -tuple
NegOfNumberOnly(h, self) ==
    IF h[self].coeff.shape \in {"tuple", "list"}
    THEN Raise(h, TypeError)
    ELSE New(h, h[self].cls, CoeffNeg(h[self].coeff), h[self].var)

\* Term.__neg__
__neg__(h, self) == New(h, h[self].cls, CoeffNeg(h[self].coeff), h[self].var)

\* -other of _BinaryTerm: both branches are negated
RECURSIVE Negative(_, _)
Negative(h, v) ==
    CASE IsNumber(v) -> Return(h, NumVal(NumNeg(v.num)))
      [] IsTerm(v) /\ IsLeaf(h, v.id) -> __neg__(h, v.id)
      [] IsTerm(v) /\ h[v.id].cls = "_BinaryTerm" ->
            LET a == Negative(h, TermRef(h[v.id].term))
                b == Negative(a.h, h[v.id].other)
            IN  IF a.err # NoErr THEN Raise(h, a.err)
                ELSE IF b.err # NoErr THEN Raise(h, b.err)
                ELSE _BinaryTerm(b.h, a.ret.id, b.ret)
      [] OTHER -> Raise(h, TypeError)

\* Term.__pos__
__pos__(h, self) == Return(h, TermRef(self))

\* Term.__sub__
__sub__(h, self, other) ==
    LET n == Negative(h, other)
    IN  IF n.err # NoErr THEN Raise(h, n.err)
        ELSE LET a == __add__(n.h, self, n.ret)
             IN  IF a.err # NoErr THEN Raise(h, a.err) ELSE a

\* Term.__rsub__: other + (-self) is (-self).__radd__(other) for a number
__rsub__(h, self, other) ==
    LET n == Negative(h, TermRef(self))
    IN  IF n.err # NoErr THEN Raise(h, n.err)
        ELSE LET a == __add__(n.h, n.ret.id, other)
             IN  IF a.err # NoErr THEN Raise(h, a.err) ELSE a

\* __eq__ that adds the right-hand side where it should subtract it
EqAsSum(h, self, other) == __add__(h, self, other)

\* Term.__eq__
__eq__(h, self, other) == __sub__(h, self, other)

\* __mul__ that scales the coefficient of self in place and returns self
MulInPlace(h, self, other) ==
    IF IsNumber(other)
    THEN IF CoeffTimesFails(other.num, h[self].coeff)
         THEN Raise(h, TypeError)
         ELSE Return([h EXCEPT ![self].coeff = CoeffTimes(other.num, h[self].coeff)], TermRef(self))
    ELSE Raise(h, MulError)

\* Term.__mul__ and Term.__rmul__
__mul__(h, self, other) ==
    IF IsNumber(other)
    THEN IF CoeffTimesFails(other.num, h[self].coeff)
         THEN Raise(h, TypeError)
         ELSE New(h, h[self].cls, CoeffTimes(other.num, h[self].coeff), h[self].var)
    ELSE Raise(h, MulError)

\* Term.__div__: (1 / other) * self is self.__rmul__(1 / other)
__div__(h, self, other) ==
    IF ~IsNumber(other) THEN Raise(h, TypeError)
    ELSE IF NumIsZero(other.num) THEN Raise(h, ZeroDivisionError)
    ELSE __mul__(h, self, NumVal(OneOver(other.num)))

\* __and__ that makes the node of the system without checking its branches
AndDeferred(h, self, other) ==
    IF IsTerm(other)
    THEN Return(Append(h, Composite("_CoupledBinaryTerm", self, other)), TermRef(Len(h) + 1))
    ELSE Raise(h, BareException)

\* __and__ that makes a sum where it should make a system
AndAsSum(h, self, other) ==
    IF IsTerm(other) THEN _BinaryTerm(h, self, other) ELSE Raise(h, BareException)

\* Term.__and__
__and__(h, self, other) ==
    IF IsTerm(other) THEN _CoupledBinaryTerm(h, self, other) ELSE Raise(h, BareException)

(***************************************************************************)
(* Building the linear system.  A matrix and a right-hand side are known   *)
(* by the variable and the time step they were assembled for.              *)
(***************************************************************************)
\* _verifyVar that prefers the variable of the term to the one it is given
VerifyVarSelfFirst(h, self, var) ==
    IF h[self].var # None THEN [err |-> NoErr, var |-> h[self].var]
    ELSE IF var = None THEN [err |-> NeedVarError, var |-> None]
    ELSE [err |-> NoErr, var |-> var]

\* Term._verifyVar
_verifyVar(h, self, var) ==
    IF var = None
    THEN IF h[self].var = None THEN [err |-> NeedVarError, var |-> None]
         ELSE [err |-> NoErr, var |-> h[self].var]
    ELSE [err |-> NoErr, var |-> var]

\* _BinaryTerm._verifyVar: without a var argument the sum must have one variable
BinaryVerifyVar(h, self, var) ==
    IF var = None
    THEN IF Len(BoundVars(h, self)) # 1 THEN [err |-> NeedVarError, var |-> None]
         ELSE [err |-> NoErr, var |-> BoundVars(h, self)[1]]
    ELSE [err |-> NoErr, var |-> var]

\* _CoupledBinaryTerm._verifyVar: no var argument, as many unknowns as equations
CoupledVerifyVar(h, self, var) ==
    IF var # None THEN [err |-> NoVarAllowedError, var |-> None]
    ELSE IF Len(BoundVars(h, self)) # Len(_getCoupledTerms(h, self))
    THEN [err |-> CountError, var |-> None]
    ELSE [err |-> NoErr, var |-> "coupled"]

\* self._verifyVar(var), by the class of self
VerifyVar(h, self, var) ==
    CASE h[self].cls = "_BinaryTerm" -> BinaryVerifyVar(h, self, var)
      [] h[self].cls = "_CoupledBinaryTerm" -> CoupledVerifyVar(h, self, var)
      [] OTHER -> _verifyVar(h, self, var)

\* numerix.getShape(dt) != (): a time step is a number or a list of numbers
IsScalar(dt) == dt.shape = "scalar"

\* dt taken as it is given, an int staying an int
FloatKeepsInt(dt) == dt.elems[1]

\* float(dt)
Float(dt) == [dt.elems[1] EXCEPT !.ty = "float"]

\* Term._buildMatrix: class Term assembles nothing, its subclasses do, a sum or a
\* system by its leaves
BuildNotImplemented(h, self) == \E l \in LeavesOf(h, self) : h[l].cls = "__Term"

\* a call made on a collaborator: the method, the object it is called on (a solver,
\* a boundary condition, the term itself), the variable and the number it is given
Event(ev, on, var, val) == [ev |-> ev, on |-> on, var |-> var, val |-> val]

\* the boundaryConditions argument: a tuple or a list of conditions, or one condition
Conditions(shape, s) == [shape |-> shape, elems |-> s]

NoConditions == Conditions("tuple", <<>>)

\* if type(boundaryConditions) not in (type(()), type([])):
\*     boundaryConditions = (boundaryConditions,)
Normalised(boundaryConditions) ==
    IF boundaryConditions.shape \in {"tuple", "list"}
    THEN boundaryConditions
    ELSE Conditions("tuple", boundaryConditions.elems)

\* the reset of the first condition only
ResetsFirstOnly(bcs) ==
    [i \in 1..(IF bcs.elems = <<>> THEN 0 ELSE 1) |->
        Event("_resetBoundaryConditionApplied", bcs.elems[i], None, NoneVal)]

\* for bc in boundaryConditions: bc._resetBoundaryConditionApplied()
Resets(bcs) ==
    [i \in 1..Len(bcs.elems) |-> Event("_resetBoundaryConditionApplied", bcs.elems[i], None, NoneVal)]

\* self._buildMatrix(var, ..., boundaryConditions, dt, ...) of a class that assembles:
\* the contributions of the term, then of each boundary condition, which marks it applied
Assembly(var, bcs, dt) ==
    <<Event("_buildMatrix", "self", var, NumVal(dt))>>
        \o [i \in 1..Len(bcs.elems) |-> Event("_buildMatrix", bcs.elems[i], var, NoneVal)]

\* the value a solver is
SolverVal(solver) == [tag |-> solver, num |-> PyInt(0), id |-> 0]

\* Term._getDefaultSolver: None in class Term; a convection term has a solver of its own
\* for want of one given
SchemeSolver(h, self) == \E l \in LeavesOf(h, self) : h[l].cls = "ConvectionTerm"

_getDefaultSolver(h, self, solver) ==
    IF SchemeSolver(h, self)
    THEN IF solver # None THEN solver ELSE "DefaultAsymmetricSolver"
    ELSE None

\* a resolution that prefers the process-wide default to the solver given
DefaultBeforeGiven(h, self, solver) ==
    IF _getDefaultSolver(h, self, solver) # None THEN _getDefaultSolver(h, self, solver)
    ELSE "DefaultSolver"

\* Term.getDefaultSolver:
\* self._getDefaultSolver(solver) or solver or DefaultSolver()
getDefaultSolver(h, self, solver) ==
    IF _getDefaultSolver(h, self, solver) # None THEN _getDefaultSolver(h, self, solver)
    ELSE IF solver # None THEN solver
    ELSE "DefaultSolver"

\* __buildMatrix that verifies the variable only when it is given none
BuildTrustsGivenVar(h, self, var, solver, boundaryConditions, dt) ==
    LET v == IF var = None THEN VerifyVar(h, self, var) ELSE [err |-> NoErr, var |-> var]
        m == System(v.var, Float(dt))
        bcs == Normalised(boundaryConditions)
    IN  IF v.err # NoErr THEN Raise(h, v.err)
        ELSE IF ~IsScalar(dt) THEN Raise(h, TypeError)
        ELSE IF BuildNotImplemented(h, self)
        THEN [Raise(h, NotImplementedError) EXCEPT !.trace = Resets(bcs)]
        ELSE [Return([h EXCEPT ![self].matrix = IF h[self]._cacheMatrix THEN m ELSE NoSystem,
                               ![self].RHSvector = IF h[self]._cacheRHSvector THEN m ELSE NoSystem],
                     NoneVal)
              EXCEPT !.trace = Resets(bcs) \o Assembly(v.var, bcs, Float(dt))
                                \o <<Event("_storeMatrix", solver, v.var, NoneVal)>>]

\* mesh = Grid1D(nx=3): three cells of unit size in a row
nx == 3

Cells == 1..nx

ZeroMatrix == [i \in Cells |-> [j \in Cells |-> PyFloat(0, 1)]]

ZeroVector == [i \in Cells |-> PyFloat(0, 1)]

\* the matrix of TransientTerm(coeff=1.) for dt=1.
Identity == [i \in Cells |-> [j \in Cells |-> PyFloat(IF i = j THEN 1 ELSE 0, 1)]]

\* the cells next to cell i
Neighbours(i) == {j \in Cells : Abs(i - j) = 1}

\* the matrix of DiffusionTerm(coeff=1.)
Laplacian ==
    [i \in Cells |-> [j \in Cells |->
        PyFloat(IF i = j THEN -Cardinality(Neighbours(i)) ELSE IF j \in Neighbours(i) THEN 1 ELSE 0, 1)]]

MatScale(c, M) == [i \in Cells |-> [j \in Cells |-> NumMul(c, M[i][j])]]

MatAdd(M, N) == [i \in Cells |-> [j \in Cells |-> NumAdd(M[i][j], N[i][j])]]

VecAdd(a, b) == [i \in Cells |-> NumAdd(a[i], b[i])]

\* the value of a variable in every cell: CellVariable(mesh=mesh, name="A")
OldValue(var) == PyFloat(0, 1)

\* _buildMatrix of a term that is no sum: a term bound to another variable contributes
\* nothing; a diffusion term its coefficient times the Laplacian; a transient term
\* coeff / dt on the diagonal, and as much times the old value on the right
LeafSystem(h, l, var, dt) ==
    LET coeff == h[l].coeff.elems[1]
    IN  CASE h[l].var \notin {NoVar, var} -> LinearSystem(ZeroMatrix, ZeroVector)
          [] h[l].coeff.shape # "scalar" -> Unassembled
          [] h[l].cls = "DiffusionTerm" -> LinearSystem(MatScale(coeff, Laplacian), ZeroVector)
          [] h[l].cls = "TransientTerm" ->
                LinearSystem(MatScale(NumDiv(coeff, dt), Identity),
                             [i \in Cells |-> NumMul(NumDiv(coeff, dt), OldValue(var))])
          [] OTHER -> Unassembled

\* _buildMatrix of a number in a sum: minus the number on the right
NumberSystem(x) == LinearSystem(ZeroMatrix, [i \in Cells |-> NumNeg(x)])

\* _buildMatrix of a sum: the matrices and the right-hand sides of its two branches,
\* each built for `var`, added
RECURSIVE _buildMatrix(_, _, _, _)
_buildMatrix(h, self, var, dt) ==
    IF IsLeaf(h, self) THEN LeafSystem(h, self, var, dt)
    ELSE IF h[self].cls # "_BinaryTerm" THEN Unassembled
    ELSE LET a == _buildMatrix(h, h[self].term, var, dt)
             b == IF IsTerm(h[self].other) THEN _buildMatrix(h, h[self].other.id, var, dt)
                  ELSE NumberSystem(h[self].other.num)
         IN  IF Unassembled \in {a, b} THEN Unassembled
             ELSE LinearSystem(MatAdd(a.matrix, b.matrix), VecAdd(a.RHSvector, b.RHSvector))

\* __buildMatrix that keeps the matrix and the RHS vector on the class, for every term
\* that caches
BuildOnClass(h, self, var, solver, boundaryConditions, dt) ==
    LET v == VerifyVar(h, self, var)
        m == System(v.var, Float(dt))
        bcs == Normalised(boundaryConditions)
    IN  IF v.err # NoErr THEN Raise(h, v.err)
        ELSE IF ~IsScalar(dt) THEN Raise(h, TypeError)
        ELSE IF BuildNotImplemented(h, self)
        THEN [Raise(h, NotImplementedError) EXCEPT !.trace = Resets(bcs)]
        ELSE [Return([t \in DOMAIN h |->
                        [h[t] EXCEPT !.matrix = IF h[t]._cacheMatrix THEN m ELSE NoSystem,
                                     !.RHSvector = IF h[t]._cacheRHSvector THEN m ELSE NoSystem]],
                     NoneVal)
              EXCEPT !.trace = Resets(bcs) \o Assembly(v.var, bcs, Float(dt))
                                \o <<Event("_storeMatrix", solver, v.var, NoneVal)>>,
                     !.stored = _buildMatrix(h, self, v.var, Float(dt))]

\* __buildMatrix that resets the conditions and drops what the term holds before it
\* validates its arguments
BuildResetsFirst(h, self, var, solver, boundaryConditions, dt) ==
    LET v == VerifyVar(h, self, var)
        m == System(v.var, Float(dt))
        bcs == Normalised(boundaryConditions)
        dropped == [h EXCEPT ![self].matrix = NoSystem, ![self].RHSvector = NoSystem]
    IN  IF v.err # NoErr THEN [Raise(dropped, v.err) EXCEPT !.trace = Resets(bcs)]
        ELSE IF ~IsScalar(dt) THEN [Raise(dropped, TypeError) EXCEPT !.trace = Resets(bcs)]
        ELSE IF BuildNotImplemented(h, self)
        THEN [Raise(h, NotImplementedError) EXCEPT !.trace = Resets(bcs)]
        ELSE [Return([h EXCEPT ![self].matrix = IF h[self]._cacheMatrix THEN m ELSE NoSystem,
                               ![self].RHSvector = IF h[self]._cacheRHSvector THEN m ELSE NoSystem],
                     NoneVal)
              EXCEPT !.trace = Resets(bcs) \o Assembly(v.var, bcs, Float(dt))
                                \o <<Event("_storeMatrix", solver, v.var, NoneVal)>>,
                     !.stored = _buildMatrix(h, self, v.var, Float(dt))]

\* Term.__buildMatrix (self._checkVar only warns)
__buildMatrix(h, self, var, solver, boundaryConditions, dt) ==
    LET v == VerifyVar(h, self, var)
        m == System(v.var, Float(dt))
        bcs == Normalised(boundaryConditions)
    IN  IF v.err # NoErr THEN Raise(h, v.err)
        ELSE IF ~IsScalar(dt) THEN Raise(h, TypeError)
        ELSE IF BuildNotImplemented(h, self)
        THEN [Raise(h, NotImplementedError) EXCEPT !.trace = Resets(bcs)]
        ELSE [Return([h EXCEPT ![self].matrix = IF h[self]._cacheMatrix THEN m ELSE NoSystem,
                               ![self].RHSvector = IF h[self]._cacheRHSvector THEN m ELSE NoSystem],
                     NoneVal)
              EXCEPT !.trace = Resets(bcs) \o Assembly(v.var, bcs, Float(dt))
                                \o <<Event("_storeMatrix", solver, v.var, NoneVal)>>,
                     !.stored = _buildMatrix(h, self, v.var, Float(dt))]

\* Term._prepareLinearSystem: returns the solver
_prepareLinearSystem(h, self, var, solver, boundaryConditions, dt) ==
    LET s == getDefaultSolver(h, self, solver)
        b == __buildMatrix(h, self, var, s, boundaryConditions, dt)
    IN  [b EXCEPT !.trace = <<Event("getDefaultSolver", "self", None, SolverVal(s))>> \o b.trace,
                  !.ret = IF b.err = NoErr THEN SolverVal(s) ELSE NoneVal]

\* the variable the solver was handed with the matrix
StoredVar(trace) == trace[Len(trace)].var

\* solver._solve(): solves for the variable stored, in place
_solve(p) ==
    [p EXCEPT !.trace = p.trace \o <<Event("_solve", p.ret.tag, StoredVar(p.trace), NoneVal)>>,
              !.solved = StoredVar(p.trace)]

\* solver._applyUnderRelaxation(underRelaxation)
_applyUnderRelaxation(p, underRelaxation) ==
    [p EXCEPT !.trace = p.trace
            \o <<Event("_applyUnderRelaxation", p.ret.tag, StoredVar(p.trace), underRelaxation)>>]

\* how many times the solver has solved in the call
Solves(trace) == Cardinality({i \in 1..Len(trace) : trace[i].ev = "_solve"})

\* solver._calcResidual() and solver._calcResidualVector(): the residual of the system
\* built, for the value the variable has when it is computed
Residual(tag, p) == [tag |-> tag, num |-> PyInt(Solves(p.trace)), id |-> 0]

_calcResidual(p) ==
    [p EXCEPT !.trace = p.trace \o <<Event("_calcResidual", p.ret.tag, StoredVar(p.trace), NoneVal)>>]

_calcResidualVector(p) ==
    [p EXCEPT !.trace = p.trace
            \o <<Event("_calcResidualVector", p.ret.tag, StoredVar(p.trace), NoneVal)>>]

\* numerix.L2norm(vector)
L2norm(vector) == [vector EXCEPT !.tag = "L2norm"]

\* a solve that invokes the solver a second time
SolveRetries(h, self, var, solver, boundaryConditions, dt) ==
    LET p == _prepareLinearSystem(h, self, var, solver, boundaryConditions, dt)
    IN  IF p.err # NoErr THEN p ELSE [_solve(_solve(p)) EXCEPT !.ret = NoneVal]

\* Term.solve
solve(h, self, var, solver, boundaryConditions, dt) ==
    LET p == _prepareLinearSystem(h, self, var, solver, boundaryConditions, dt)
    IN  IF p.err # NoErr THEN p ELSE [_solve(p) EXCEPT !.ret = NoneVal]

\* a sweep that computes its residual once the solver has solved
SweepSolvesFirst(h, self, var, solver, boundaryConditions, dt, underRelaxation) ==
    LET p == _prepareLinearSystem(h, self, var, solver, boundaryConditions, dt)
        u == _applyUnderRelaxation(p, underRelaxation)
        r == _calcResidual(_solve(u))
    IN  IF p.err # NoErr THEN p ELSE [r EXCEPT !.ret = Residual("residual", r)]

\* Term.sweep
sweep(h, self, var, solver, boundaryConditions, dt, underRelaxation) ==
    LET p == _prepareLinearSystem(h, self, var, solver, boundaryConditions, dt)
        u == _applyUnderRelaxation(p, underRelaxation)
        r == _calcResidual(u)
    IN  IF p.err # NoErr THEN p ELSE [_solve(r) EXCEPT !.ret = Residual("residual", r)]

\* a residual vector computed as sweep computes its residual, the solver then solving
ResidualVectorSolved(h, self, var, solver, boundaryConditions, dt, underRelaxation) ==
    LET p == _prepareLinearSystem(h, self, var, solver, boundaryConditions, dt)
        u == _applyUnderRelaxation(p, underRelaxation)
        r == _calcResidualVector(u)
    IN  IF p.err # NoErr THEN p ELSE [_solve(r) EXCEPT !.ret = Residual("vector", r)]

\* Term.justResidualVector
justResidualVector(h, self, var, solver, boundaryConditions, dt, underRelaxation) ==
    LET p == _prepareLinearSystem(h, self, var, solver, boundaryConditions, dt)
        u == _applyUnderRelaxation(p, underRelaxation)
        r == _calcResidualVector(u)
    IN  IF p.err # NoErr THEN p ELSE [r EXCEPT !.ret = Residual("vector", r)]

\* Term.residualVectorAndNorm
residualVectorAndNorm(h, self, var, solver, boundaryConditions, dt, underRelaxation) ==
    LET p == _prepareLinearSystem(h, self, var, solver, boundaryConditions, dt)
        u == _applyUnderRelaxation(p, underRelaxation)
        r == _calcResidualVector(u)
    IN  IF p.err # NoErr THEN p
        ELSE [r EXCEPT !.ret = Residual("vector", r), !.ret2 = L2norm(Residual("vector", r))]

\* one request that makes a build keep both the matrix and the RHS vector
CacheBoth(h, self) ==
    Return([h EXCEPT ![self]._cacheMatrix = TRUE, ![self]._cacheRHSvector = TRUE], NoneVal)

\* Term.cacheMatrix
cacheMatrix(h, self) == Return([h EXCEPT ![self]._cacheMatrix = TRUE], NoneVal)

\* Term.cacheRHSvector
cacheRHSvector(h, self) == Return([h EXCEPT ![self]._cacheRHSvector = TRUE], NoneVal)

\* getMatrix that returns what the term holds and requests nothing
GetMatrixOnly(h, self) == Return(h, [tag |-> "matrix", num |-> h[self].matrix.dt, id |-> 0])

\* Term.getMatrix: without the request to cache it warns, makes the request, and
\* returns what the term holds
getMatrix(h, self) ==
    LET c == IF h[self]._cacheMatrix THEN h ELSE cacheMatrix(h, self).h
    IN  Return(c, [tag |-> "matrix", num |-> c[self].matrix.dt, id |-> 0])

\* Term.getRHSvector
getRHSvector(h, self) ==
    LET c == IF h[self]._cacheRHSvector THEN h ELSE cacheRHSvector(h, self).h
    IN  Return(c, [tag |-> "RHSvector", num |-> c[self].RHSvector.dt, id |-> 0])

\* Term._calcGeomCoeff: None in class Term, a coefficient in the classes that override it
_calcGeomCoeff(h, self) == IF h[self].cls = "__Term" THEN None ELSE "geomCoeff"

\* the value a geometry coefficient is
GeomCoeffVal(g) == [tag |-> g, num |-> PyInt(0), id |-> 0]

\* the calls of one computation of the geometry coefficient: the computation, and the
\* mark on a coefficient that is not None
Computation(g) ==
    <<Event("_calcGeomCoeff", "self", None, NoneVal)>>
        \o (IF g = None THEN <<>> ELSE <<Event("dontCacheMe", "geomCoeff", None, NoneVal)>>)

\* _getGeomCoeff that computes and marks whatever the term holds
GeomCoeffRecomputed(h, self) ==
    LET g == _calcGeomCoeff(h, self)
    IN  [Return([h EXCEPT ![self].geomCoeff = g], GeomCoeffVal(g)) EXCEPT !.trace = Computation(g)]

\* Term._getGeomCoeff
_getGeomCoeff(h, self) ==
    IF h[self].geomCoeff = None
    THEN LET g == _calcGeomCoeff(h, self)
         IN  [Return([h EXCEPT ![self].geomCoeff = g], GeomCoeffVal(g))
                EXCEPT !.trace = Computation(g)]
    ELSE Return(h, GeomCoeffVal(h[self].geomCoeff))

(***************************************************************************)
(* Floats of Numeric arrays.  Beside the fractions above, a float can be   *)
(* one of the smallest: n times 2^-1074, the least positive float.  The    *)
(* product of two of these is less than half the least positive float and  *)
(* rounds to zero; 1. / 0. is infinite where it does not raise.            *)
(***************************************************************************)
Denormal(n) == [ty |-> "denormal", n |-> n, d |-> 1]

IsDenormal(a) == a.ty = "denormal"

Zero == PyFloat(0, 1)

Inf == [ty |-> "float", n |-> 1, d |-> 0]

\* the integer nearest x / q, a tie going to the even one (q > 0)
RoundHalfEven(x, q) ==
    LET f == x \div q
        r == x % q
    IN  IF 2 * r < q THEN f
        ELSE IF 2 * r > q THEN f + 1
        ELSE IF f % 2 = 0 THEN f ELSE f + 1

\* a * b
FloatMul(a, b) ==
    CASE IsDenormal(a) /\ IsDenormal(b) -> Zero
      [] IsDenormal(a) -> Denormal(RoundHalfEven(a.n * b.n, b.d))
      [] IsDenormal(b) -> Denormal(RoundHalfEven(a.n * b.n, a.d))
      [] OTHER -> Norm("float", a.n * b.n, a.d * b.d)

\* a + b: one of the smallest floats added to a fraction that is not zero is lost
FloatAdd(a, b) ==
    CASE IsDenormal(a) /\ IsDenormal(b) -> Denormal(a.n + b.n)
      [] IsDenormal(a) -> IF b.n = 0 THEN a ELSE b
      [] IsDenormal(b) -> IF a.n = 0 THEN b ELSE a
      [] OTHER -> Norm("float", a.n * b.d + b.n * a.d, a.d * b.d)

FloatNeg(a) == [a EXCEPT !.n = -a.n]

FloatAbs(a) == [a EXCEPT !.n = Abs(a.n)]

\* a < b
FloatLess(a, b) ==
    CASE IsDenormal(a) = IsDenormal(b) -> a.n * b.d < b.n * a.d
      [] IsDenormal(a) -> IF b.n = 0 THEN a.n < 0 ELSE b.n > 0
      [] OTHER -> IF a.n = 0 THEN b.n > 0 ELSE a.n < 0

\* Numeric.minimum and Numeric.maximum of two elements
FloatMin(a, b) == IF FloatLess(b, a) THEN b ELSE a

FloatMax(a, b) == IF FloatLess(a, b) THEN b ELSE a

\* a / b of fractions, b not zero
FloatDiv(a, b) == Norm("float", a.n * b.d, a.d * b.n)

\* min(array) of Python
RECURSIVE MinOf(_)
MinOf(s) == IF Len(s) = 1 THEN s[1] ELSE FloatMin(s[1], MinOf(Tail(s)))

(***************************************************************************)
(* class VanLeerConvectionTerm.  Its arrays are sequences; the arrays of   *)
(* interior faces have one element for each interior face, the k-th for    *)
(* the face between the cells k and k + 1 of a mesh of cells in a row.     *)
(***************************************************************************)
\* one element of getGradient: the nested Numeric.where
Limited(normalGradient, gradUpwind) ==
    LET gradUpUpwind == FloatAdd(FloatNeg(gradUpwind), FloatMul(PyInt(2), normalGradient))
    IN  IF FloatLess(FloatMul(gradUpwind, gradUpUpwind), Zero) THEN Zero
        ELSE IF FloatLess(Zero, gradUpUpwind) THEN FloatMin(gradUpwind, gradUpUpwind)
        ELSE FloatNeg(FloatMin(FloatAbs(gradUpwind), FloatAbs(gradUpUpwind)))

\* VanLeerConvectionTerm.getGradient, on arrays of one length
getGradient(normalGradient, gradUpwind) ==
    [k \in 1..Len(gradUpwind) |-> Limited(normalGradient[k], gradUpwind[k])]

\* Grid1D: the volumes of its cells, in a row
Grid1D(vol) == [nx |-> Len(vol), vol |-> vol]

\* mesh.getInteriorFaceIDs(), counted from the first interior face
InteriorFaces(mesh) == 1..(mesh.nx - 1)

\* mesh.getCellDistances() of an interior face: between the centres of its two cells
CellDistance(mesh, k) == FloatDiv(FloatAdd(mesh.vol[k], mesh.vol[k + 1]), PyInt(2))

\* the term once constructed: no CFL yet, no call made; coeff is the coefficient on
\* the interior faces, array.take(self.coeff, interiorIDs)
VanLeerConvectionTerm(mesh, coeff, dt) ==
    [mesh |-> mesh, coeff |-> coeff, dt |-> dt, CFL |-> <<>>, hasCFL |-> FALSE,
     op |-> "init", a |-> <<>>, b |-> <<>>, ret |-> <<>>, ret2 |-> <<>>, err |-> NoErr]

\* the call `op` of arguments a and b made on the term
Called(self, op, a, b) ==
    [self EXCEPT !.op = op, !.a = a, !.b = b, !.ret = <<>>, !.ret2 = <<>>, !.err = NoErr]

\* the per-face CFL the term tracks: interiorCFL over the smaller of the two cells
TrackedCFL(self) ==
    [k \in InteriorFaces(self.mesh) |->
        LET interiorCFL == FloatMul(FloatAbs(self.coeff[k]), self.dt)
        IN  FloatMax(FloatDiv(interiorCFL, self.mesh.vol[k + 1]),
                     FloatDiv(interiorCFL, self.mesh.vol[k]))]

\* getOldAdjacentValues that keeps, face by face, the largest CFL it has tracked
OldAdjacentValuesKeepMax(self, oldArray, cellGrad) ==
    LET K == InteriorFaces(self.mesh)
        half == PyFloat(1, 2)
        oldArray1 == [k \in K |-> oldArray[k]]
        oldArray2 == [k \in K |-> oldArray[k + 1]]
        interiorCFL == [k \in K |-> FloatMul(FloatAbs(self.coeff[k]), self.dt)]
        gradUpwind == [k \in K |-> FloatDiv(FloatAdd(oldArray2[k], FloatNeg(oldArray1[k])),
                                            CellDistance(self.mesh, k))]
        vol1 == [k \in K |-> self.mesh.vol[k]]
        vol2 == [k \in K |-> self.mesh.vol[k + 1]]
        grad1 == getGradient([k \in K |-> cellGrad[k]], gradUpwind)
        grad2 == getGradient([k \in K |-> FloatNeg(cellGrad[k + 1])],
                             [k \in K |-> FloatNeg(gradUpwind[k])])
        tracked == TrackedCFL(self)
        kept == [k \in K |-> IF self.hasCFL THEN FloatMax(tracked[k], self.CFL[k]) ELSE tracked[k]]
        new1 == [k \in K |-> FloatAdd(oldArray1[k],
                    FloatMul(FloatMul(half, grad1[k]), FloatAdd(vol1[k], FloatNeg(interiorCFL[k]))))]
        new2 == [k \in K |-> FloatAdd(oldArray2[k],
                    FloatMul(FloatMul(half, grad2[k]), FloatAdd(vol2[k], FloatNeg(interiorCFL[k]))))]
    IN  [Called(self, "getOldAdjacentValues", oldArray, cellGrad)
            EXCEPT !.CFL = kept, !.hasCFL = TRUE, !.ret = new1, !.ret2 = new2]

\* VanLeerConvectionTerm.getOldAdjacentValues(oldArray, id1, id2), id1 and id2 the cells
\* on the two sides of the interior faces; cellGrad is oldArray.getGrad(); the faces
\* of cells in a row have area 1 and the normal of the row
getOldAdjacentValues(self, oldArray, cellGrad) ==
    LET K == InteriorFaces(self.mesh)
        half == PyFloat(1, 2)
        oldArray1 == [k \in K |-> oldArray[k]]
        oldArray2 == [k \in K |-> oldArray[k + 1]]
        interiorCFL == [k \in K |-> FloatMul(FloatAbs(self.coeff[k]), self.dt)]
        gradUpwind == [k \in K |-> FloatDiv(FloatAdd(oldArray2[k], FloatNeg(oldArray1[k])),
                                            CellDistance(self.mesh, k))]
        vol1 == [k \in K |-> self.mesh.vol[k]]
        vol2 == [k \in K |-> self.mesh.vol[k + 1]]
        grad1 == getGradient([k \in K |-> cellGrad[k]], gradUpwind)
        grad2 == getGradient([k \in K |-> FloatNeg(cellGrad[k + 1])],
                             [k \in K |-> FloatNeg(gradUpwind[k])])
        new1 == [k \in K |-> FloatAdd(oldArray1[k],
                    FloatMul(FloatMul(half, grad1[k]), FloatAdd(vol1[k], FloatNeg(interiorCFL[k]))))]
        new2 == [k \in K |-> FloatAdd(oldArray2[k],
                    FloatMul(FloatMul(half, grad2[k]), FloatAdd(vol2[k], FloatNeg(interiorCFL[k]))))]
    IN  [Called(self, "getOldAdjacentValues", oldArray, cellGrad)
            EXCEPT !.CFL = TrackedCFL(self), !.hasCFL = TRUE, !.ret = new1, !.ret2 = new2]

AttributeError == "AttributeError"

ValueError == "ValueError"

\* 0.2 / self.CFL, element by element: an element that is zero makes the division
\* raise or gives infinity, as the array package is built
FifthOver(CFL) ==
    [k \in 1..Len(CFL) |-> IF CFL[k].n = 0 THEN Inf ELSE FloatDiv(PyFloat(1, 5), CFL[k])]

\* a figure of merit that is the largest of the ratios
FigureOfMeritMax(self) ==
    LET call == Called(self, "getFigureOfMerit", <<>>, <<>>)
    IN  IF ~self.hasCFL THEN {[call EXCEPT !.err = AttributeError]}
        ELSE IF self.CFL = <<>> THEN {[call EXCEPT !.err = ValueError]}
        ELSE {[call EXCEPT !.ret = <<FloatNeg(MinOf([k \in 1..Len(self.CFL) |->
                                        FloatNeg(FifthOver(self.CFL)[k])]))>>]}

\* VanLeerConvectionTerm.getFigureOfMerit: the outcomes of min(0.2 / self.CFL)
getFigureOfMerit(self) ==
    LET call == Called(self, "getFigureOfMerit", <<>>, <<>>)
    IN  IF ~self.hasCFL THEN {[call EXCEPT !.err = AttributeError]}
        ELSE IF self.CFL = <<>> THEN {[call EXCEPT !.err = ValueError]}
        ELSE {[call EXCEPT !.ret = <<MinOf(FifthOver(self.CFL))>>]}
                \cup (IF \E k \in 1..Len(self.CFL) : self.CFL[k].n = 0
                      THEN {[call EXCEPT !.err = ZeroDivisionError]} ELSE {})

(***************************************************************************)
(* The state machine.  Init constructs one term; every action is one call  *)
(* on `eq`: an operator, the other operand being a number, `eq` itself or  *)
(* a term constructed for the call, or a method.                           *)
(***************************************************************************)
\* the constructor calls of the algebra
Leaves ==
    { TermInit("__Term", Scalar(PyInt(2)), None),
      TermInit("__Term", Tuple(<<PyFloat(1, 1), PyFloat(2, 1)>>), "A"),
      TermInit("TransientTerm", Scalar(PyFloat(1, 2)), "A"),
      TermInit("TransientTerm", List(<<PyInt(3), PyInt(4)>>), "B") }

\* the numbers handed to the operators of the algebra
Numbers == {PyInt(0), PyFloat(0, 1), PyInt(2), PyFloat(1, 2)}

\* the constructor calls and the numbers of the equations that are built
EqLeaves ==
    { TermInit("DiffusionTerm", Scalar(PyFloat(1, 1)), None),
      TermInit("DiffusionTerm", Scalar(PyFloat(1, 1)), "A"),
      TermInit("DiffusionTerm", Scalar(PyFloat(1, 1)), "B"),
      TermInit("DiffusionTerm", Scalar(PyFloat(1, 1)), "C") }

EqNumbers == {PyFloat(10, 1)}

\* the constructor calls and the numbers of the terms whose caches are set
CacheLeaves ==
    { TermInit("__Term", Scalar(PyInt(2)), None),
      TermInit("TransientTerm", Tuple(<<PyFloat(1, 1), PyFloat(2, 1)>>), "A") }

CacheNumbers == {PyInt(0), PyInt(2)}

\* the time steps of the builds of these terms: two, to tell one build from the next
CacheDts == {Scalar(PyInt(2)), Scalar(PyFloat(1, 2))}

\* the arguments of a build; solver=None, boundaryConditions=(), underRelaxation=None
\* unless given
Args(var, dt) ==
    [var |-> var, solver |-> None, boundaryConditions |-> NoConditions, dt |-> dt,
     underRelaxation |-> NoneVal]

\* the var and dt arguments of the equations that are built
VarArgs == {None, "A"}

DtArgs == {Scalar(PyInt(2)), List(<<PyFloat(1, 1), PyFloat(1, 1)>>)}

BuildArgs ==
    {Args(v, Scalar(PyInt(2))) : v \in VarArgs} \cup {Args(None, dt) : dt \in DtArgs}

\* the boundary conditions of the program
BoundaryConditions == {"bc1", "bc2"}

\* the constructor calls of the terms whose builds are followed step by step: a term
\* that assembles, one with a solver of its own, one bound to no variable, and one of
\* the class that does not assemble
BuildLeaves ==
    { TermInit("DiffusionTerm", Scalar(PyFloat(1, 1)), "A"),
      TermInit("ConvectionTerm", Scalar(PyFloat(1, 1)), "A"),
      TermInit("DiffusionTerm", Scalar(PyFloat(1, 1)), None),
      TermInit("__Term", Scalar(PyFloat(1, 1)), "A") }

\* the arguments of these builds: each argument varied in turn, and together
PlainArgs == Args("A", Scalar(PyInt(2)))

StepArgs ==
    { PlainArgs,
      Args(None, Scalar(PyInt(2))),
      Args("A", Scalar(PyFloat(1, 2))),
      Args("A", List(<<PyFloat(1, 1), PyFloat(1, 1)>>)),
      Args(None, List(<<PyFloat(1, 1), PyFloat(1, 1)>>)),
      [PlainArgs EXCEPT !.solver = "mySolver"],
      [PlainArgs EXCEPT !.boundaryConditions = Conditions("single", <<"bc1">>)],
      [PlainArgs EXCEPT !.boundaryConditions = Conditions("tuple", <<"bc1", "bc2">>)],
      [PlainArgs EXCEPT !.boundaryConditions = Conditions("list", <<"bc2">>)],
      [PlainArgs EXCEPT !.solver = "mySolver", !.dt = Scalar(PyFloat(1, 2)),
                        !.boundaryConditions = Conditions("tuple", <<"bc2", "bc1">>)] }

\* the same with under-relaxation, for the entry points that take it
RelaxedArgs ==
    StepArgs \cup {[a EXCEPT !.underRelaxation = NumVal(PyFloat(1, 2))] :
                        a \in {PlainArgs, [PlainArgs EXCEPT !.solver = "mySolver"]}}

\* an operand of a call: the equation held, a term constructed for the call, a value
NoLeaf == TermInit("__Term", Scalar(PyInt(0)), None)

TheEq == [kind |-> "eq", leaf |-> NoLeaf, val |-> NoneVal]

Fresh(l) == [kind |-> "new", leaf |-> l, val |-> NoneVal]

Given(v) == [kind |-> "val", leaf |-> NoLeaf, val |-> v]

\* the heap once the operand is constructed, and the value the operand is
HeapWith(h, a) == IF a.kind = "new" THEN Append(h, a.leaf) ELSE h

ValueOf(h, a) ==
    CASE a.kind = "eq" -> TermRef(eq)
      [] a.kind = "new" -> TermRef(Len(h))
      [] OTHER -> a.val

NoLast ==
    [op |-> "init", self |-> 0, other |-> NoneVal, args |-> Args(None, Scalar(PyInt(0))),
     ret |-> NoneVal, ret2 |-> NoneVal, err |-> NoErr, solved |-> None, trace |-> <<>>,
     stored |-> Unassembled,
     pre |-> <<>>, was |-> [b \in BoundaryConditions |-> FALSE]]

\* no van Leer term in the programs of class Term
NoVanLeer == VanLeerConvectionTerm(Grid1D(<<>>), <<>>, Zero)

InitWith(L) ==
    /\ \E l \in L : heap = <<l>>
    /\ eq = 1
    /\ last = NoLast
    /\ applied = [b \in BoundaryConditions |-> FALSE]
    /\ vanLeer = NoVanLeer

\* the 'applied' flags once the calls of a trace are made: a reset clears the flag of
\* a condition, its contribution to a matrix sets it
RECURSIVE Replay(_, _)
Replay(a, trace) ==
    IF trace = <<>> THEN a
    ELSE LET e == Head(trace)
             b == IF e.on \notin BoundaryConditions THEN a
                  ELSE [a EXCEPT ![e.on] = (e.ev = "_buildMatrix")]
         IN  Replay(b, Tail(trace))

\* the new state once a call made on heap `h` has had outcome `out`; a call that
\* raises leaves the program with what it had
Outcome(cap, call, h, out, held) ==
    /\ Len(h) <= cap
    /\ Len(out.h) <= cap
    /\ heap' = IF out.err = NoErr THEN out.h ELSE heap
    /\ eq' = IF out.err = NoErr THEN held ELSE eq
    /\ applied' = Replay(applied, out.trace)
    /\ UNCHANGED vanLeer
    /\ last' = [call EXCEPT !.ret = out.ret, !.ret2 = out.ret2, !.err = out.err,
                            !.solved = out.solved, !.trace = out.trace, !.pre = h,
                            !.stored = out.stored,
                            !.was = applied]

\* the operands self and other of a binary operator, once constructed
Operands(s, o) ==
    LET h1 == HeapWith(heap, s)
        h2 == HeapWith(h1, o)
    IN  [h |-> h2, self |-> ValueOf(h1, s).id, other |-> ValueOf(h2, o)]

\* eq = self <op> other, of outcome `out`
Binary(cap, op, a, out) ==
    Outcome(cap, [NoLast EXCEPT !.op = op, !.self = a.self, !.other = a.other], a.h, out, out.ret.id)

\* eq = <op> eq, of outcome `out`
Unary(cap, op, out) == Outcome(cap, [NoLast EXCEPT !.op = op, !.self = eq], heap, out, out.ret.id)

\* t.method(), of outcome `out`
Method(t, op, out) == Outcome(Len(heap), [NoLast EXCEPT !.op = op, !.self = t], heap, out, eq)

\* t.method(var, solver, boundaryConditions, dt, ...), of outcome `out`
Build(t, op, a, out) ==
    Outcome(Len(heap), [NoLast EXCEPT !.op = op, !.self = t, !.args = a], heap, out, eq)

Add(cap, s, o) ==
    LET a == Operands(s, o) IN Binary(cap, "add", a, __add__(a.h, a.self, a.other))

RAdd(cap, o) ==
    LET a == Operands(TheEq, o) IN Binary(cap, "radd", a, __add__(a.h, a.self, a.other))

Neg(cap) == Unary(cap, "neg", __neg__(heap, eq))

Pos(cap) == Unary(cap, "pos", __pos__(heap, eq))

Sub(cap, s, o) ==
    LET a == Operands(s, o) IN Binary(cap, "sub", a, __sub__(a.h, a.self, a.other))

RSub(cap, o) ==
    LET a == Operands(TheEq, o) IN Binary(cap, "rsub", a, __rsub__(a.h, a.self, a.other))

Eq(cap, s, o) ==
    LET a == Operands(s, o) IN Binary(cap, "eq", a, __eq__(a.h, a.self, a.other))

Mul(cap, o) ==
    LET a == Operands(TheEq, o) IN Binary(cap, "mul", a, __mul__(a.h, a.self, a.other))

RMul(cap, o) ==
    LET a == Operands(TheEq, o) IN Binary(cap, "rmul", a, __mul__(a.h, a.self, a.other))

Div(cap, o) ==
    LET a == Operands(TheEq, o) IN Binary(cap, "div", a, __div__(a.h, a.self, a.other))

And(cap, s, o) ==
    LET a == Operands(s, o) IN Binary(cap, "and", a, __and__(a.h, a.self, a.other))

Solve(t, a) ==
    Build(t, "solve", a, solve(heap, t, a.var, a.solver, a.boundaryConditions, a.dt))

Sweep(t, a) ==
    Build(t, "sweep", a,
          sweep(heap, t, a.var, a.solver, a.boundaryConditions, a.dt, a.underRelaxation))

JustResidualVector(t, a) ==
    Build(t, "justResidualVector", a,
          justResidualVector(heap, t, a.var, a.solver, a.boundaryConditions, a.dt,
                             a.underRelaxation))

ResidualVectorAndNorm(t, a) ==
    Build(t, "residualVectorAndNorm", a,
          residualVectorAndNorm(heap, t, a.var, a.solver, a.boundaryConditions, a.dt,
                                a.underRelaxation))

CacheMatrix(t) == Method(t, "cacheMatrix", cacheMatrix(heap, t))

CacheRHSvector(t) == Method(t, "cacheRHSvector", cacheRHSvector(heap, t))

GetGeomCoeff(t) == Method(t, "_getGeomCoeff", _getGeomCoeff(heap, t))

GetMatrix(t) == Method(t, "getMatrix", getMatrix(heap, t))

GetRHSvector(t) == Method(t, "getRHSvector", getRHSvector(heap, t))

PrepareLinearSystem(t, a) ==
    Build(t, "_prepareLinearSystem", a,
          _prepareLinearSystem(heap, t, a.var, a.solver, a.boundaryConditions, a.dt))

\* the pairs of operands of a binary operator on terms: eq and a term constructed from L
TermPairs(L) == LET new == {Fresh(l) : l \in L} IN ({TheEq} \X new) \cup (new \X {TheEq})

\* eq with itself
SelfPair == {<<TheEq, TheEq>>}

NumArgs(N) == {Given(NumVal(k)) : k \in N}

\* a coupled system is added to nothing but zero
Summable == heap[eq].cls # "_CoupledBinaryTerm"

SumPairs(P, N) ==
    IF Summable THEN P \cup ({TheEq} \X NumArgs(N))
    ELSE {TheEq} \X {a \in NumArgs(N) : NumIsZero(a.val.num)}

\* the operators that compose equations, on the pairs of terms P and the numbers N
Compose(cap, P, N) ==
    \/ \E p \in SumPairs(P, N) : Add(cap, p[1], p[2])
    \/ \E p \in SumPairs(P, N) \cup ({TheEq} \X {Given(StrVal)}) : Sub(cap, p[1], p[2])
    \/ \E p \in SumPairs(P, N) : Eq(cap, p[1], p[2])
    \/ \E p \in P \cup ({TheEq} \X {Given(StrVal)}) : And(cap, p[1], p[2])

\* the reflected, unary and scaling operators
Scale(cap, N) ==
    \/ \E p \in SumPairs({}, N) : RAdd(cap, p[2])
    \/ IsLeaf(heap, eq) /\ Neg(cap)
    \/ Pos(cap)
    \/ \E o \in NumArgs(N) : IsLeaf(heap, eq) /\ RSub(cap, o)
    \/ \E o \in NumArgs(N) \cup {Given(StrVal)} : IsLeaf(heap, eq) /\ Mul(cap, o)
    \/ \E o \in NumArgs(N) \cup {Given(StrVal)} : IsLeaf(heap, eq) /\ RMul(cap, o)
    \/ \E o \in NumArgs(N) \cup {Given(StrVal)} : IsLeaf(heap, eq) /\ Div(cap, o)

\* the methods that build the system of term t
Builds(t) ==
    \/ \E a \in BuildArgs : Solve(t, a)
    \/ \E a \in BuildArgs : Sweep(t, a)
    \/ JustResidualVector(t, Args(None, Scalar(PyInt(2))))
    \/ ResidualVectorAndNorm(t, Args(None, Scalar(PyInt(2))))

\* the methods that set the caches of term t
Caches(t) ==
    \/ CacheMatrix(t)
    \/ CacheRHSvector(t)
    \/ GetGeomCoeff(t)
    \/ GetMatrix(t)
    \/ GetRHSvector(t)
    \/ \E dt \in CacheDts : Solve(t, Args("A", dt))

\* the algebra of terms
Init == InitWith(Leaves)

Next == Compose(MaxTerms, TermPairs(Leaves) \cup SelfPair, Numbers) \/ Scale(MaxTerms, Numbers)

Spec == Init /\ [][Next]_vars

\* equations composed of terms and built
InitEq == InitWith(EqLeaves)

NextEq == Compose(MaxEqTerms, TermPairs(EqLeaves), EqNumbers) \/ Builds(eq)

SpecEq == InitEq /\ [][NextEq]_vars

\* the entry points that build, with every argument
StepBuilds(t) ==
    \/ \E a \in StepArgs : Solve(t, a)
    \/ \E a \in RelaxedArgs : Sweep(t, a)
    \/ \E a \in RelaxedArgs : JustResidualVector(t, a)
    \/ \E a \in RelaxedArgs : ResidualVectorAndNorm(t, a)

\* terms and sums built step by step
InitBuild == InitWith(BuildLeaves)

NextBuild ==
    \/ \E l \in BuildLeaves : Add(MaxBuildTerms, TheEq, Fresh(l))
    \/ StepBuilds(eq)

SpecBuild == InitBuild /\ [][NextBuild]_vars

\* equations between transient and diffusion terms of two variables, prepared and
\* solved for each
SumLeaves ==
    { TermInit(cls, Scalar(PyFloat(c, 1)), v) :
        cls \in {"TransientTerm", "DiffusionTerm"}, c \in {1, 2}, v \in {"A", "B"} }

SumArgs == { Args(v, dt) : v \in {"A", "B", None}, dt \in {Scalar(PyFloat(1, 1)), Scalar(PyFloat(1, 2))} }

InitSum == InitWith(SumLeaves)

NextSum ==
    \/ \E l \in SumLeaves : Eq(MaxSumTerms, TheEq, Fresh(l))
    \/ \E a \in SumArgs : PrepareLinearSystem(eq, a)
    \/ \E a \in SumArgs : Solve(eq, a)

SpecSum == InitSum /\ [][NextSum]_vars

\* an array of n elements x
Uniform(n, x) == [i \in 1..n |-> x]

\* the mesh of the scenario: ten unit cells
ScenarioCells == 10

\* meshes of unit cells, and of cells of two sizes
Meshes ==
    {Grid1D(Uniform(n, PyFloat(1, 1))) : n \in {1, 3, ScenarioCells}}
        \cup {Grid1D(<<PyFloat(1, 1), PyFloat(2, 1)>>)}

\* velocities on the interior faces: the same on all, at rest, or faster on the first
Velocities(mesh) ==
    {Uniform(mesh.nx - 1, PyFloat(c, 1)) : c \in {1, -2, 0}}
        \cup {[k \in InteriorFaces(mesh) |-> PyFloat(IF k = 1 THEN 3 ELSE 1, 1)]}

TimeSteps == {PyFloat(1, 10), PyFloat(1, 2)}

\* the pairs of gradients handed to the limiter: ordinary ones, and ones of the
\* smallest floats
Gradients ==
    LET G == -MaxGrad..MaxGrad
    IN  {<<PyFloat(n, 1), PyFloat(g, 1)>> : n \in G, g \in G}
            \cup {<<Denormal(n), Denormal(g)>> : n \in G, g \in G}

\* the old values of the variable: a ramp, a step
OldArrays(mesh) ==
    { [i \in 1..mesh.nx |-> PyFloat(i, 1)],
      [i \in 1..mesh.nx |-> PyFloat(IF i = 1 THEN 1 ELSE 0, 1)] }

\* the gradients the variable stores for its cells
CellGrads(mesh) == {Uniform(mesh.nx, PyFloat(g, 1)) : g \in {-1, 1}}

TermProgram ==
    /\ heap = <<>>
    /\ eq = 0
    /\ last = NoLast
    /\ applied = [b \in BoundaryConditions |-> FALSE]

GetGradient(normalGradient, gradUpwind) ==
    /\ vanLeer' = [Called(vanLeer, "getGradient", normalGradient, gradUpwind)
                        EXCEPT !.ret = getGradient(normalGradient, gradUpwind)]
    /\ UNCHANGED <<heap, eq, last, applied>>

\* a time step of the explicit term: the step stores its dt on the term, then asks
\* for the adjacent values
GetOldAdjacentValues(dt, oldArray, cellGrad) ==
    /\ vanLeer' = getOldAdjacentValues([vanLeer EXCEPT !.dt = dt], oldArray, cellGrad)
    /\ UNCHANGED <<heap, eq, last, applied>>

GetFigureOfMerit ==
    /\ vanLeer' \in getFigureOfMerit(vanLeer)
    /\ UNCHANGED <<heap, eq, last, applied>>

InitVanLeer ==
    /\ TermProgram
    /\ \E mesh \in Meshes : \E coeff \in Velocities(mesh) : \E dt \in TimeSteps :
            vanLeer = VanLeerConvectionTerm(mesh, coeff, dt)

NextVanLeer ==
    \/ \E p \in Gradients : GetGradient(<<p[1]>>, <<p[2]>>)
    \/ \E dt \in TimeSteps :
        \E oldArray \in OldArrays(vanLeer.mesh) : \E cellGrad \in CellGrads(vanLeer.mesh) :
            GetOldAdjacentValues(dt, oldArray, cellGrad)
    \/ GetFigureOfMerit

SpecVanLeer == InitVanLeer /\ [][NextVanLeer]_vars

\* a term built, asked to cache and asked for what it holds, in any order
GetDts == CacheDts \cup {List(<<PyFloat(1, 1), PyFloat(1, 1)>>)}

\* the arguments of these builds: accepted, and refused for the variable or for dt,
\* with and without boundary conditions
GetArgs ==
    {Args("A", dt) : dt \in GetDts}
        \cup { Args(None, Scalar(PyInt(2))),
               [PlainArgs EXCEPT !.boundaryConditions = Conditions("single", <<"bc1">>)],
               [Args("A", List(<<PyFloat(1, 1), PyFloat(1, 1)>>)) EXCEPT
                        !.solver = "mySolver",
                        !.boundaryConditions = Conditions("tuple", <<"bc1", "bc2">>)] }

InitGet == InitWith(CacheLeaves)

NextGet ==
    \/ CacheMatrix(1)
    \/ CacheRHSvector(1)
    \/ GetMatrix(1)
    \/ GetRHSvector(1)
    \/ \E a \in GetArgs : Solve(1, a)
    \/ \E a \in GetArgs : Sweep(1, a)

SpecGet == InitGet /\ [][NextGet]_vars

\* two callers, each with a term of its own, whose builds interleave
TwoLeaves ==
    { TermInit("DiffusionTerm", Scalar(PyFloat(1, 1)), "A"),
      TermInit("ConvectionTerm", Scalar(PyFloat(1, 1)), "A") }

TwoArgs ==
    { Args("A", List(<<PyFloat(1, 1), PyFloat(1, 1)>>)),
      [PlainArgs EXCEPT !.boundaryConditions = Conditions("single", <<"bc1">>)],
      [Args("A", Scalar(PyFloat(1, 2))) EXCEPT
                        !.solver = "mySolver", !.underRelaxation = NumVal(PyFloat(1, 2)),
                        !.boundaryConditions = Conditions("tuple", <<"bc2", "bc1">>)] }

Callers == {1, 2}

InitTwo ==
    /\ \E l1 \in TwoLeaves : \E l2 \in TwoLeaves : heap = <<l1, l2>>
    /\ eq = 1
    /\ last = NoLast
    /\ applied = [b \in BoundaryConditions |-> FALSE]
    /\ vanLeer = NoVanLeer

NextTwo ==
    \E t \in Callers :
        \/ CacheMatrix(t)
        \/ \E a \in TwoArgs : Solve(t, a)
        \/ \E a \in TwoArgs : Sweep(t, a)
        \/ \E a \in TwoArgs : JustResidualVector(t, a)

SpecTwo == InitTwo /\ [][NextTwo]_vars

\* the algebra of a term whose caches are set
InitCache == InitWith(CacheLeaves)

NextCache ==
    \/ Compose(MaxCacheTerms, TermPairs(CacheLeaves) \cup SelfPair, CacheNumbers)
    \/ Scale(MaxCacheTerms, CacheNumbers)
    \/ Caches(1)

SpecCache == InitCache /\ [][NextCache]_vars

(***************************************************************************)
(* Properties.  `last` is the call just made: its operands in the heap     *)
(* `last.pre` it was made on, the value returned and the exception raised. *)
(***************************************************************************)
AlgebraOps == {"add", "radd", "neg", "pos", "sub", "rsub", "eq", "mul", "rmul", "div", "and"}

ComposeOps == {"add", "sub", "eq", "and"}

BuildOps == {"solve", "sweep", "justResidualVector", "residualVectorAndNorm"}

IsZero(v) == IsNumber(v) /\ NumIsZero(v.num)

\* the distinct variables bound in a term tree
VarsOf(h, i) == {h[l].var : l \in LeavesOf(h, i)} \ {NoVar}

\* the tree holds a term bound to a variable and a term bound to none
MixesVars(h, S) == (\E l \in S : h[l].var # NoVar) /\ (\E l \in S : h[l].var = NoVar)

\* the coefficient `c` is `of`, every element passed through F
Elementwise(c, of, F(_)) ==
    /\ Len(c.elems) = Len(of.elems)
    /\ \A i \in 1..Len(of.elems) : NumEq(c.elems[i], F(of.elems[i]))

\* the call returned a term that was not on the heap before
ReturnsNew ==
    /\ last.err = NoErr
    /\ IsTerm(last.ret)
    /\ last.ret.id \in (1..Len(heap)) \ (1..Len(last.pre))

\* C1: adding the number zero, int or float, on either side of a term returns the
\* term itself: the same instance, and no node is created.
AddZeroReturnsSelf ==
    (last.op \in {"add", "radd"} /\ IsZero(last.other))
        => /\ last.err = NoErr
           /\ last.ret = TermRef(last.self)
           /\ eq = last.self
           /\ heap = last.pre

\* 0.0 + t for a sum t
AddZeroWitness ==
    /\ last.op = "radd"
    /\ last.other = NumVal(PyFloat(0, 1))
    /\ last.pre[last.self].cls = "_BinaryTerm"
    /\ last.ret = TermRef(last.self)

\* the node t + (-x) of a number or a leaf term x
IsSumWithNegated(h, pre, t, x) ==
    /\ h.cls = "_BinaryTerm"
    /\ h.term = t
    /\ IsNumber(x) => h.other = NumVal(NumNeg(x.num))
    /\ (IsTerm(x) /\ IsLeaf(pre, x.id)) =>
            /\ IsTerm(h.other)
            /\ heap[h.other.id].cls = pre[x.id].cls
            /\ heap[h.other.id].var = pre[x.id].var
            /\ Elementwise(heap[h.other.id].coeff, pre[x.id].coeff, NumNeg)

\* C2: t == x has the outcome of t - x, which is the sum t + (-x); t == 0 (which
\* is also how Python evaluates 0 == t) is t itself.
EqIsSub ==
    last.op = "eq" =>
        LET sub == __sub__(last.pre, last.self, last.other)
        IN  /\ last.err = sub.err
            /\ last.ret = sub.ret
            /\ last.err = NoErr => heap = sub.h
            /\ IsZero(last.other) => (last.ret = TermRef(last.self) /\ heap = last.pre)
            /\ (last.err = NoErr /\ ~IsZero(last.other))
                    => /\ ReturnsNew
                       /\ IsSumWithNegated(heap[last.ret.id], last.pre, last.self, last.other)

\* t == x for a leaf term x
EqIsSubWitness ==
    /\ last.op = "eq"
    /\ IsTerm(last.other)
    /\ IsLeaf(last.pre, last.other.id)
    /\ last.err = NoErr
    /\ heap[last.ret.id].cls = "_BinaryTerm"

\* C3: k * t and t * k, k an int or a float, return a new term of the class and
\* with the variable of t whose coefficient is k times that of t element by
\* element; any other operand raises 'Must multiply terms by int or float.'.
MulScalesCoeff ==
    last.op \in {"mul", "rmul"} =>
        IF IsNumber(last.other)
        THEN /\ ReturnsNew
             /\ heap[last.ret.id].cls = last.pre[last.self].cls
             /\ heap[last.ret.id].var = last.pre[last.self].var
             /\ LET TimesK(x) == NumMul(last.other.num, x)
                IN  Elementwise(heap[last.ret.id].coeff, last.pre[last.self].coeff, TimesK)
        ELSE last.err = MulError

\* C4: -t of a leaf term t is a new term of the class and with the variable of t
\* whose coefficient is that of t negated, element by element for a tuple or list.
NegNegatesCoeff ==
    last.op = "neg" =>
        /\ ReturnsNew
        /\ heap[last.ret.id].cls = last.pre[last.self].cls
        /\ heap[last.ret.id].var = last.pre[last.self].var
        /\ Elementwise(heap[last.ret.id].coeff, last.pre[last.self].coeff, NumNeg)

\* -t for a term whose coefficient is a list
NegWitness ==
    /\ last.op = "neg"
    /\ last.pre[last.self].coeff.shape = "list"
    /\ last.err = NoErr
    /\ heap[last.ret.id].coeff.elems = <<PyInt(-3), PyInt(-4)>>

Unknowns(h, S) == UNION {VarsOf(h, i) : i \in S}

\* the sub-equations of a call's operands, a system counting for those it couples
RECURSIVE SubEquations(_, _)
SubEquations(h, i) ==
    IF h[i].cls = "_CoupledBinaryTerm"
    THEN SubEquations(h, h[i].term) \cup SubEquations(h, h[i].other.id)
    ELSE {i}

OperandEquations == SubEquations(last.pre, last.self) \cup SubEquations(last.pre, last.other.id)

\* the operands of the call hold a term bound to a variable and a term bound to none
OperandsMix ==
    MixesVars(last.pre, UNION {LeavesOf(last.pre, i) : i \in OperandEquations})

\* the operands of the call have fewer unknowns than equations
OperandsLackUnknowns ==
    Cardinality(Unknowns(last.pre, OperandEquations)) < Cardinality(OperandEquations)

\* the system built has as many unknowns as equations
SystemIsSquare ==
    LET S == SubEquations(last.pre, last.self)
    IN  Cardinality(Unknowns(last.pre, S)) = Cardinality(S)

IsCoupled(h, i) == h[i].cls = "_CoupledBinaryTerm"

\* the variables the call assembled a system for
BuiltFor == {last.trace[i].var : i \in {k \in 1..Len(last.trace) : last.trace[k].ev = "_buildMatrix"}}

\* C6: a build of a term or sum solves for the var argument when it is given one,
\* else for the single variable bound in the term; given none, with no variable
\* or with two distinct variables bound, it raises 'The solution variable needs
\* to be specified'.
SolutionVarResolved ==
    (last.op \in BuildOps /\ ~IsCoupled(last.pre, last.self)) =>
        LET bound == VarsOf(last.pre, last.self)
            var == last.args.var
        IN  /\ (var = None /\ Cardinality(bound) # 1) => last.err = NeedVarError
            /\ (var = None /\ Cardinality(bound) = 1) => last.err # NeedVarError
            /\ var # None => last.err # NeedVarError
            /\ IsScalar(last.args.dt) =>
                    /\ var # None => (last.err = NoErr /\ BuiltFor = {var})
                    /\ (var = None /\ Cardinality(bound) = 1)
                            => (last.err = NoErr /\ BuiltFor = bound)

\* solve(var=A) of a sum of terms bound to B and C
SolutionVarWitness ==
    /\ last.op = "solve"
    /\ last.pre[last.self].cls = "_BinaryTerm"
    /\ VarsOf(last.pre, last.self) = {"B", "C"}
    /\ last.args.var = "A"
    /\ last.solved = "A"

\* C7: a sum (+, -, ==) of terms is rejected with 'Terms with explicit Variables
\* cannot mix with Terms with implicit Variables' exactly when it would hold a term
\* bound to a variable and a term bound to none; a term plus a number is accepted,
\* and so no sum ever holds both.
MixedSumRejected ==
    /\ (last.op \in {"add", "sub", "eq"} /\ IsTerm(last.other)) =>
            LET S == LeavesOf(last.pre, last.self) \cup LeavesOf(last.pre, last.other.id)
            IN  IF MixesVars(last.pre, S)
                THEN last.err = MixError
                ELSE last.err = NoErr /\ heap[last.ret.id].cls = "_BinaryTerm"
    /\ (last.op \in {"add", "sub", "eq"} /\ IsNumber(last.other)) => last.err = NoErr
    /\ \A i \in 1..Len(heap) :
            heap[i].cls = "_BinaryTerm" => ~MixesVars(heap, LeavesOf(heap, i))

\* a term bound to no variable == a sum of a bound term and a number
MixedSumWitness ==
    /\ last.op = "eq"
    /\ IsTerm(last.other)
    /\ last.pre[last.self].var = NoVar
    /\ last.pre[last.other.id].cls = "_BinaryTerm"
    /\ IsNumber(last.pre[last.other.id].other)
    /\ last.err = MixError

\* C8 as stated: composing terms with +, -, == or & never raises a validation
\* error; only a build does.
ComposeNeverRejects ==
    last.op \in ComposeOps
        => last.err \notin {MixError, CountError, NeedVarError, NoVarAllowedError}

\* C8, amended: the operators +, -, == and & themselves raise the error of mixed
\* variables, and & the count error when its operands have fewer unknowns than
\* equations; a build raises neither of these two cases but the errors of the
\* var argument and the count error of a system with more unknowns than equations.
ValidationTiming ==
    /\ last.op \in ComposeOps => last.err \notin {NeedVarError, NoVarAllowedError}
    /\ last.op \in {"add", "sub", "eq"} => last.err # CountError
    /\ (last.op = "and" /\ IsTerm(last.other)) =>
            /\ last.err = MixError <=> OperandsMix
            /\ last.err = CountError <=> (~OperandsMix /\ OperandsLackUnknowns)
    /\ last.op \in BuildOps => last.err # MixError
    /\ (last.op \in BuildOps /\ last.err = CountError) =>
            LET S == SubEquations(last.pre, last.self)
            IN  Cardinality(Unknowns(last.pre, S)) > Cardinality(S)

\* t & u, both terms bound to A, is refused by & itself
ValidationTimingWitness ==
    /\ last.op = "and"
    /\ IsTerm(last.other)
    /\ Unknowns(last.pre, OperandEquations) = {"A"}
    /\ Cardinality(OperandEquations) = 2
    /\ last.err = CountError

\* C9 as stated: a system is accepted, by & and by solve() with no var, exactly
\* when it has as many distinct unknowns as equations, and is refused, by & or
\* by solve(), with 'Different number of solution variables and equations.'
\* whenever the two numbers differ.
CountAloneDecides ==
    /\ (last.op = "and" /\ IsTerm(last.other)) =>
            LET k == Cardinality(Unknowns(last.pre, OperandEquations))
                n == Cardinality(OperandEquations)
            IN  IF k = n THEN last.err = NoErr ELSE last.err \in {NoErr, CountError}
    /\ (last.op \in BuildOps /\ IsCoupled(last.pre, last.self) /\ last.args.var = None) =>
            /\ ~SystemIsSquare => last.err = CountError
            /\ (SystemIsSquare /\ IsScalar(last.args.dt)) => last.err = NoErr

\* C9, amended: & refuses operands that mix bound and unbound terms with the
\* error of mixed variables, refuses operands with fewer unknowns than equations
\* with the count error, and makes the system otherwise; solve() with no var
\* succeeds on a system exactly when it has as many unknowns as equations, and
\* raises the count error when it has not.
SystemAccepted ==
    /\ (last.op = "and" /\ IsTerm(last.other)) =>
            CASE OperandsMix -> last.err = MixError
              [] ~OperandsMix /\ OperandsLackUnknowns -> last.err = CountError
              [] OTHER -> ReturnsNew /\ IsCoupled(heap, last.ret.id)
    /\ (last.op \in BuildOps /\ IsCoupled(last.pre, last.self) /\ last.args.var = None) =>
            /\ ~SystemIsSquare => last.err = CountError
            /\ (SystemIsSquare /\ IsScalar(last.args.dt)) => last.err = NoErr

\* solve() of a system of three equations in A, B and C
SystemAcceptedWitness ==
    /\ last.op = "solve"
    /\ IsCoupled(last.pre, last.self)
    /\ last.args.var = None
    /\ Cardinality(SubEquations(last.pre, last.self)) = 3
    /\ Unknowns(last.pre, SubEquations(last.pre, last.self)) = {"A", "B", "C"}
    /\ last.err = NoErr

\* C10: solve and sweep of a system, given a var argument, raise 'The solution
\* variable should not be specified.', whether or not the system has as many
\* unknowns as equations.
GivenVarRefused ==
    (last.op \in {"solve", "sweep"} /\ IsCoupled(last.pre, last.self) /\ last.args.var # None)
        => last.err = NoVarAllowedError

\* sweep(var=A) of a system of two equations in three unknowns
GivenVarRefusedWitness ==
    /\ last.op = "sweep"
    /\ IsCoupled(last.pre, last.self)
    /\ last.args.var = "A"
    /\ ~SystemIsSquare
    /\ last.err = NoVarAllowedError

\* the calls of the trace that are method `ev`, as positions in the trace
Calls(ev) == {i \in 1..Len(last.trace) : last.trace[i].ev = ev}

\* the positions at which the term assembles its matrix
Assemblies == {i \in Calls("_buildMatrix") : last.trace[i].on = "self"}

Validated == last.err \in {NoErr, NotImplementedError}

\* C12: a build resets the 'applied' flag of every boundary condition it is passed, a
\* condition passed alone counting as a collection of one, exactly once each, and
\* makes every reset before the term or any condition contributes to the matrix; the
\* flags of the other conditions are left alone, and a call refused for its variable
\* or its dt resets nothing.
ConditionsReset ==
    last.op \in BuildOps =>
        LET passed == last.args.boundaryConditions.elems
            given == {passed[k] : k \in 1..Len(passed)}
            resets == Calls("_resetBoundaryConditionApplied")
        IN  /\ Validated =>
                    /\ \A b \in given :
                            Cardinality({i \in resets : last.trace[i].on = b}) = 1
                    /\ \A i \in resets : last.trace[i].on \in given
                    /\ \A i \in resets : \A j \in Calls("_buildMatrix") : i < j
                    /\ \A b \in BoundaryConditions \ given : applied[b] = last.was[b]
                    /\ last.err = NotImplementedError => \A b \in given : ~applied[b]
            /\ ~Validated => (resets = {} /\ applied = last.was)

\* a build passed one condition, not in a tuple, whose flag was set by an earlier build
ConditionsResetWitness ==
    /\ last.op = "sweep"
    /\ last.args.boundaryConditions = Conditions("single", <<"bc1">>)
    /\ last.was["bc1"]
    /\ last.err = NoErr
    /\ Cardinality(Calls("_resetBoundaryConditionApplied")) = 1
    /\ Assemblies # {}

\* the terms that existed before the call and still exist after it
Survivors == {i \in 1..Len(last.pre) : i <= Len(heap)}

\* the system the successful build just made assembled
Built(S) == \E v \in BuiltFor : S = System(v, Float(last.args.dt))

\* C13: a successful build leaves the term holding the matrix of that build if the
\* term was asked to cache it (cacheMatrix, also made by getMatrix) at any time before,
\* and None otherwise; the same holds, independently, of the RHS vector and
\* cacheRHSvector.  A request is never withdrawn, is made by these calls only, and what
\* a term holds stays until its next successful build.
CachedOnRequest ==
    \A i \in Survivors :
        LET old == last.pre[i]
            new == heap[i]
            built == last.op \in BuildOps /\ last.self = i /\ last.err = NoErr
        IN  /\ built => /\ IF old._cacheMatrix THEN Built(new.matrix) ELSE new.matrix = NoSystem
                        /\ IF old._cacheRHSvector THEN Built(new.RHSvector)
                                                  ELSE new.RHSvector = NoSystem
            /\ ~built => (new.matrix = old.matrix /\ new.RHSvector = old.RHSvector)
            /\ old._cacheMatrix => new._cacheMatrix
            /\ old._cacheRHSvector => new._cacheRHSvector
            /\ new._cacheMatrix # old._cacheMatrix =>
                    (last.op \in {"cacheMatrix", "getMatrix"} /\ last.self = i)
            /\ new._cacheRHSvector # old._cacheRHSvector =>
                    (last.op \in {"cacheRHSvector", "getRHSvector"} /\ last.self = i)
            /\ ~new._cacheMatrix => new.matrix = NoSystem
            /\ ~new._cacheRHSvector => new.RHSvector = NoSystem

\* a build replaces the matrix an earlier build left, the RHS vector never asked for
CachedOnRequestWitness ==
    /\ last.op = "solve"
    /\ last.err = NoErr
    /\ last.pre[last.self].matrix # NoSystem
    /\ heap[last.self].matrix # last.pre[last.self].matrix
    /\ heap[last.self].matrix # NoSystem
    /\ ~heap[last.self]._cacheRHSvector
    /\ heap[last.self].RHSvector = NoSystem

\* the call named is made exactly once in the call of the entry point
Once(ev) == Cardinality(Calls(ev)) = 1

\* every call named a is made before every call named b
Before(a, b) == \A i \in Calls(a) : \A j \in Calls(b) : i < j

\* the solver the system was handed to
StoredOn == {last.trace[i].on : i \in Calls("_storeMatrix")}

\* the system is assembled once, then handed once to the solver
BuiltOnce ==
    /\ Cardinality(Assemblies) = 1
    /\ Once("_storeMatrix")
    /\ Before("_buildMatrix", "_storeMatrix")

\* the calls an entry point makes on the solver once it holds the system
SolverCalls == {"_applyUnderRelaxation", "_calcResidual", "_calcResidualVector", "_solve"}

\* a call that raised made no call on the solver
NothingOnFailure ==
    last.err # NoErr => (\A ev \in SolverCalls \cup {"_storeMatrix"} : Calls(ev) = {})

\* C14: one call of solve builds the linear system, hands matrix and RHS to the solver
\* and invokes the solver's solve, in this order and each exactly once; it never
\* applies under-relaxation, never computes a residual, never invokes the solver twice,
\* and returns None.
SolveSteps ==
    last.op = "solve" =>
        /\ NothingOnFailure
        /\ last.ret = NoneVal
        /\ last.ret2 = NoneVal
        /\ \A ev \in SolverCalls \ {"_solve"} : Calls(ev) = {}
        /\ last.err = NoErr =>
                /\ BuiltOnce
                /\ Once("_solve")
                /\ Before("_storeMatrix", "_solve")
                /\ Calls("_solve") = {Len(last.trace)}
                /\ StoredOn = {last.trace[Len(last.trace)].on}
                /\ last.solved \in BuiltFor

\* solve with boundary conditions and a solver of the caller, run to its end
SolveStepsWitness ==
    /\ last.op = "solve"
    /\ last.err = NoErr
    /\ last.args.solver = "mySolver"
    /\ Len(last.args.boundaryConditions.elems) = 2
    /\ Once("_solve")
    /\ last.solved = "A"

\* C15: one call of sweep builds the system and hands it to the solver, applies
\* under-relaxation with the factor given, computes the residual and invokes the
\* solver's solve, in this order and each exactly once; it returns the residual
\* computed before the solve of this call.
SweepSteps ==
    last.op = "sweep" =>
        /\ NothingOnFailure
        /\ Calls("_calcResidualVector") = {}
        /\ last.err = NoErr =>
                /\ BuiltOnce
                /\ Once("_applyUnderRelaxation")
                /\ Once("_calcResidual")
                /\ Once("_solve")
                /\ Before("_storeMatrix", "_applyUnderRelaxation")
                /\ Before("_applyUnderRelaxation", "_calcResidual")
                /\ Before("_calcResidual", "_solve")
                /\ \A i \in Calls("_applyUnderRelaxation") :
                        last.trace[i].val = last.args.underRelaxation
                /\ \A i \in Calls("_applyUnderRelaxation") \cup Calls("_calcResidual")
                                \cup Calls("_solve") : last.trace[i].on \in StoredOn
                /\ last.ret = [tag |-> "residual", num |-> PyInt(0), id |-> 0]
                /\ last.solved \in BuiltFor

\* a sweep with an under-relaxation factor, run to its end
SweepStepsWitness ==
    /\ last.op = "sweep"
    /\ last.err = NoErr
    /\ last.args.underRelaxation = NumVal(PyFloat(1, 2))
    /\ last.ret.tag = "residual"
    /\ last.solved = "A"

Resolved == {last.trace[i].val.tag : i \in Calls("getDefaultSolver")}

\* C17: every entry point resolves its solver first, before it verifies or builds
\* anything; the process-wide default is the solver exactly when none is given and the
\* term has no default of its own scheme; a solver given to a term without such a
\* default is the one that is handed the matrix and on which every later call,
\* the solve included, is made.
SolverResolved ==
    last.op \in BuildOps =>
        LET given == last.args.solver
            scheme == SchemeSolver(last.pre, last.self)
        IN  /\ Calls("getDefaultSolver") = {1}
            /\ "DefaultSolver" \in Resolved <=> (given = None /\ ~scheme)
            /\ (given # None /\ ~scheme) => Resolved = {given}
            /\ \A ev \in SolverCalls \cup {"_storeMatrix"} :
                    \A i \in Calls(ev) : last.trace[i].on \in Resolved
            /\ last.op \in {"solve", "sweep"} /\ last.err = NoErr =>
                    \E i \in Calls("_solve") : last.trace[i].on \in Resolved

\* the solver of the caller, given to a diffusion term, is handed the matrix and solves
SolverResolvedWitness ==
    /\ last.op = "sweep"
    /\ last.err = NoErr
    /\ last.args.solver = "mySolver"
    /\ ~SchemeSolver(last.pre, last.self)
    /\ StoredOn = {"mySolver"}
    /\ \E i \in Calls("_solve") : last.trace[i].on = "mySolver"

\* the sum of the matrices of the terms of S, each built for its own variable
RECURSIVE MatrixOf(_, _, _)
MatrixOf(h, S, dt) ==
    IF S = {} THEN ZeroMatrix
    ELSE LET l == CHOOSE x \in S : TRUE
         IN  MatAdd(LeafSystem(h, l, h[l].var, dt).matrix, MatrixOf(h, S \ {l}, dt))

\* the rows of a matrix written in integers
Rows(M) == [i \in 1..Len(M) |-> [j \in 1..Len(M[i]) |-> PyFloat(M[i][j], 1)]]

\* the term is TransientTerm(coeff=1., var=A) == DiffusionTerm(coeff=1., var=B); the
\* sums are those == makes of terms constructed with the coefficients 1 and 2
IsDoctestEquation(h, i) ==
    /\ h[i].cls = "_BinaryTerm"
    /\ IsLeaf(h, h[i].term)
    /\ h[h[i].term].cls = "TransientTerm"
    /\ h[h[i].term].var = "A"
    /\ Abs(h[h[i].term].coeff.elems[1].n) = 1
    /\ IsTerm(h[i].other)
    /\ IsLeaf(h, h[i].other.id)
    /\ h[h[i].other.id].cls = "DiffusionTerm"
    /\ h[h[i].other.id].var = "B"
    /\ Abs(h[h[i].other.id].coeff.elems[1].n) = 1

\* C18: a sum of terms bound to different variables, built with var=v, is built
\* without error, and the matrix handed to the solver is the sum of the matrices of
\* the sub-terms bound to v alone, the right-hand side zero for variables of value 0.
\* For TransientTerm(coeff=1., var=A) == DiffusionTerm(coeff=1., var=B) on three unit
\* cells and dt=1., var=A gives the identity and var=B gives
\* [[1,-1,0],[-1,2,-1],[0,-1,1]], both with a zero right-hand side.
SumAssembled ==
    (/\ last.op \in {"_prepareLinearSystem", "solve"}
     /\ last.pre[last.self].cls = "_BinaryTerm"
     /\ last.args.var # None) =>
        LET h == last.pre
            v == last.args.var
            dt == Float(last.args.dt)
            bound == {l \in LeavesOf(h, last.self) : h[l].var = v}
        IN  /\ last.err = NoErr
            /\ last.stored.matrix = MatrixOf(h, bound, dt)
            /\ last.stored.RHSvector = ZeroVector
            /\ (IsDoctestEquation(h, last.self) /\ NumEq(dt, PyFloat(1, 1))) =>
                    /\ v = "A" => last.stored.matrix = Rows(<<<<1, 0, 0>>, <<0, 1, 0>>, <<0, 0, 1>>>>)
                    /\ v = "B" => last.stored.matrix = Rows(<<<<1, -1, 0>>, <<-1, 2, -1>>, <<0, -1, 1>>>>)

\* the equation of the doctest prepared for B
SumAssembledWitness ==
    /\ last.op = "_prepareLinearSystem"
    /\ IsDoctestEquation(last.pre, last.self)
    /\ last.args.var = "B"
    /\ NumEq(Float(last.args.dt), PyFloat(1, 1))
    /\ last.err = NoErr
    /\ last.stored.matrix[2][2] = PyFloat(2, 1)
    /\ last.stored.RHSvector = ZeroVector

\* one gradient is below zero and the other above
OppositeSigns(a, b) ==
    \/ FloatLess(a, Zero) /\ FloatLess(Zero, b)
    \/ FloatLess(Zero, a) /\ FloatLess(b, Zero)

\* |a| <= |b|
NoLarger(a, b) == ~FloatLess(FloatAbs(b), FloatAbs(a))

\* what C19 requires of one element of getGradient
LimitedAsClaimed(normalGradient, gradUpwind, grad) ==
    LET gradUpUpwind == FloatAdd(FloatNeg(gradUpwind), FloatMul(PyInt(2), normalGradient))
    IN  /\ grad = IF OppositeSigns(gradUpwind, gradUpUpwind) THEN Zero
                  ELSE IF FloatLess(Zero, gradUpUpwind) THEN FloatMin(gradUpwind, gradUpUpwind)
                  ELSE FloatNeg(FloatMin(FloatAbs(gradUpwind), FloatAbs(gradUpUpwind)))
        /\ NoLarger(grad, gradUpwind)
        /\ NoLarger(grad, gradUpUpwind)
        /\ ~OppositeSigns(grad, gradUpwind)

\* C19: getGradient returns exactly 0 wherever gradUpwind and gradUpUpwind
\* = -gradUpwind + 2 * normalGradient have opposite signs, elsewhere the smaller of the
\* two if gradUpUpwind > 0 and minus the smaller of their magnitudes if not; the result
\* is larger than neither gradient in magnitude and never of the sign opposite to
\* gradUpwind.
LimiterBounded ==
    vanLeer.op = "getGradient" =>
        \A k \in 1..Len(vanLeer.ret) : LimitedAsClaimed(vanLeer.a[k], vanLeer.b[k], vanLeer.ret[k])

\* the ratios the figure of merit is the least of
Ratios == FifthOver(TrackedCFL(vanLeer))

\* C20: getFigureOfMerit returns the least, over the interior faces, of 0.2 / CFL for
\* the CFL the term tracked in getOldAdjacentValues, |coeff| * dt over the smaller of
\* the two cells of the face; it is below 1 exactly when the CFL of some face is above
\* 0.2; on ten unit cells with unit velocity and dt = 0.1 it is 2.0.
FigureOfMerit ==
    (vanLeer.op = "getFigureOfMerit" /\ vanLeer.err = NoErr) =>
        LET merit == vanLeer.ret[1]
            K == InteriorFaces(vanLeer.mesh)
        IN  /\ vanLeer.hasCFL
            /\ vanLeer.CFL = TrackedCFL(vanLeer)
            /\ \E k \in K : merit = Ratios[k]
            /\ \A k \in K : ~FloatLess(Ratios[k], merit)
            /\ FloatLess(merit, PyFloat(1, 1)) <=>
                    \E k \in K : FloatLess(PyFloat(1, 5), vanLeer.CFL[k])
            /\ (/\ vanLeer.mesh = Grid1D(Uniform(ScenarioCells, PyFloat(1, 1)))
                /\ vanLeer.coeff = Uniform(ScenarioCells - 1, PyFloat(1, 1))
                /\ vanLeer.dt = PyFloat(1, 10)) => merit = PyFloat(2, 1)

\* the scenario: ten unit cells, unit velocity, CFL 0.1 on every face
FigureOfMeritWitness ==
    /\ vanLeer.op = "getFigureOfMerit"
    /\ vanLeer.err = NoErr
    /\ vanLeer.mesh.nx = ScenarioCells
    /\ vanLeer.CFL = Uniform(ScenarioCells - 1, PyFloat(1, 10))
    /\ vanLeer.ret = <<PyFloat(2, 1)>>

\* C21: t / k, k an int or a float that is not zero, is a new term of the class and
\* with the variable of t whose coefficient is that of t divided by k, element by
\* element; a term of coefficient 2 divided by 2 has coefficient 1.
DivScalesCoeff ==
    (last.op = "div" /\ IsNumber(last.other) /\ ~IsZero(last.other)) =>
        /\ ReturnsNew
        /\ heap[last.ret.id].cls = last.pre[last.self].cls
        /\ heap[last.ret.id].var = last.pre[last.self].var
        /\ LET OverK(x) == NumDiv(x, last.other.num)
           IN  Elementwise(heap[last.ret.id].coeff, last.pre[last.self].coeff, OverK)

\* what getMatrix and getRHSvector return for a system the term holds
Held(tag, S) == [tag |-> tag, num |-> S.dt, id |-> 0]

\* one step of C22 for the matrix
GetMatrixStep ==
    LET t == last'.self
    IN  /\ (last'.op = "getMatrix" /\ ~heap[t]._cacheMatrix) =>
                /\ last'.err = NoErr
                /\ last'.ret = Held("matrix", NoSystem)
                /\ heap[t].matrix = NoSystem
                /\ heap'[t] = [heap[t] EXCEPT !._cacheMatrix = TRUE]
        /\ (last'.op = "getMatrix" /\ heap[t]._cacheMatrix) =>
                /\ last'.ret = Held("matrix", heap[t].matrix)
                /\ heap' = heap
        /\ (/\ last.op = "getMatrix"
            /\ last.self = t
            /\ last'.op \in {"solve", "sweep"}
            /\ last'.err = NoErr) =>
                /\ heap'[t].matrix = System(last'.solved, Float(last'.args.dt))
                /\ getMatrix(heap', t).ret = Held("matrix", System(last'.solved, Float(last'.args.dt)))

\* one step of C22 for the RHS vector
GetRHSvectorStep ==
    LET t == last'.self
    IN  /\ (last'.op = "getRHSvector" /\ ~heap[t]._cacheRHSvector) =>
                /\ last'.err = NoErr
                /\ last'.ret = Held("RHSvector", NoSystem)
                /\ heap[t].RHSvector = NoSystem
                /\ heap'[t] = [heap[t] EXCEPT !._cacheRHSvector = TRUE]
        /\ (last'.op = "getRHSvector" /\ heap[t]._cacheRHSvector) =>
                /\ last'.ret = Held("RHSvector", heap[t].RHSvector)
                /\ heap' = heap
        /\ (/\ last.op = "getRHSvector"
            /\ last.self = t
            /\ last'.op \in {"solve", "sweep"}
            /\ last'.err = NoErr) =>
                /\ heap'[t].RHSvector = System(last'.solved, Float(last'.args.dt))
                /\ getRHSvector(heap', t).ret
                        = Held("RHSvector", System(last'.solved, Float(last'.args.dt)))

\* C22: whatever solve, sweep, cacheMatrix and getMatrix calls came before, getMatrix()
\* called while the matrix was never asked to be cached returns None and asks for it
\* to be cached, changing nothing else, so that a successful solve or sweep that
\* follows leaves the matrix of that build for getMatrix() to return; getMatrix() on a
\* term asked before returns what the term holds and changes nothing; the same of
\* getRHSvector() and the RHS vector.
GetterRequests == [][GetMatrixStep /\ GetRHSvectorStep]_vars

\* getMatrix() before any request: None is returned and the request is made
GetterRequestsWitness ==
    /\ last.op = "getMatrix"
    /\ ~last.pre[last.self]._cacheMatrix
    /\ heap[last.self]._cacheMatrix
    /\ heap[last.self].matrix = NoSystem
    /\ ~heap[last.self]._cacheRHSvector
    /\ last.ret = Held("matrix", NoSystem)

\* the call is _getGeomCoeff and it computed the coefficient
Computed(l) == l.op = "_getGeomCoeff" /\ \E i \in 1..Len(l.trace) : l.trace[i].ev = "_calcGeomCoeff"

\* C24 as stated: the geometry coefficient of a term is computed at most once: the
\* call of _getGeomCoeff that computed it marked it and left it on the term, and the
\* call of _getGeomCoeff that follows returns it and computes and marks nothing.
GeomCoeffOnce ==
    Computed(last) =>
        /\ Cardinality(Calls("dontCacheMe")) = 1
        /\ heap[last.self].geomCoeff # None
        /\ _getGeomCoeff(heap, last.self).trace = <<>>
        /\ _getGeomCoeff(heap, last.self).ret = last.ret

\* one step of C24, amended
GeomCoeffStep ==
    /\ \A t \in 1..Len(heap) : heap[t].geomCoeff # None => heap'[t].geomCoeff = heap[t].geomCoeff
    /\ last'.op = "_getGeomCoeff" =>
        LET t == last'.self
            g == _calcGeomCoeff(heap, t)
        IN  /\ last'.err = NoErr
            /\ last'.ret = GeomCoeffVal(heap'[t].geomCoeff)
            /\ heap[t].geomCoeff # None =>
                    /\ last'.trace = <<>>
                    /\ heap' = heap
            /\ heap[t].geomCoeff = None =>
                    /\ Computed(last')
                    /\ Cardinality(Calls("_calcGeomCoeff")') = 1
                    /\ heap' = [heap EXCEPT ![t].geomCoeff = g]
                    /\ Cardinality(Calls("dontCacheMe")') = (IF g = None THEN 0 ELSE 1)

\* C24, amended: a call of _getGeomCoeff computes the coefficient exactly when the
\* term holds None; a computation that gives a coefficient marks it 'do not persist'
\* once and leaves it on the term, after which no call of any method replaces it,
\* computes it or marks it again; a computation that gives None (class Term itself)
\* marks nothing and leaves None, so the next call computes again.
GeomCoeffMemoized == [][GeomCoeffStep]_vars

\* the second of two calls: the coefficient held is returned, nothing is computed
GeomCoeffMemoizedWitness ==
    /\ last.op = "_getGeomCoeff"
    /\ last.pre[last.self].geomCoeff # None
    /\ last.trace = <<>>
    /\ last.ret = GeomCoeffVal(heap[last.self].geomCoeff)

\* the build `op` of term t of heap h, with arguments a
BuildOf(op, h, t, a) ==
    CASE op = "solve" -> solve(h, t, a.var, a.solver, a.boundaryConditions, a.dt)
      [] op = "sweep" ->
            sweep(h, t, a.var, a.solver, a.boundaryConditions, a.dt, a.underRelaxation)
      [] op = "justResidualVector" ->
            justResidualVector(h, t, a.var, a.solver, a.boundaryConditions, a.dt,
                               a.underRelaxation)
      [] op = "residualVectorAndNorm" ->
            residualVectorAndNorm(h, t, a.var, a.solver, a.boundaryConditions, a.dt,
                                  a.underRelaxation)

\* the build changed no term but its own, and of its own nothing but what it caches
OtherTermsKept ==
    /\ DOMAIN heap = DOMAIN last.pre
    /\ \A t \in DOMAIN heap \ {last.self} : heap[t] = last.pre[t]
    /\ heap[last.self] = [last.pre[last.self] EXCEPT !.matrix = heap[last.self].matrix,
                                                     !.RHSvector = heap[last.self].RHSvector]

\* no other term has a part in the build: it made the calls and produced the system
\* and the values it makes and produces when its term is the only term there is
AsIfAlone ==
    LET alone == BuildOf(last.op, <<last.pre[last.self]>>, 1, last.args)
    IN  /\ alone.err = last.err
        /\ alone.trace = last.trace
        /\ alone.stored = last.stored
        /\ alone.ret = last.ret
        /\ alone.ret2 = last.ret2
        /\ alone.solved = last.solved
        /\ last.err = NoErr => alone.h[1] = heap[last.self]

Refused ==
    /\ last.op \in BuildOps
    /\ IsLeaf(last.pre, last.self)
    /\ last.err \in {NeedVarError, TypeError}

\* C26: a build of a term that is no sum, refused because no solution variable is given
\* or bound or because dt is not a single number, has changed nothing: no boundary
\* condition had its applied flag reset, the term holds the matrix and the RHS vector
\* it held, nothing was assembled, the solver was handed no system and was not asked to
\* relax, to compute a residual or to solve, and nothing is returned.  These are the
\* builds refused: those with var None on a term bound to none, and of the others
\* those whose dt is not a single number.
RefusedBuildChangesNothing ==
    /\ (last.op \in BuildOps /\ IsLeaf(last.pre, last.self)) =>
            LET unresolved == last.args.var = None /\ last.pre[last.self].var = NoVar
            IN  /\ last.err = NeedVarError <=> unresolved
                /\ last.err = TypeError <=> (~unresolved /\ ~IsScalar(last.args.dt))
    /\ Refused =>
            /\ BuildOf(last.op, last.pre, last.self, last.args).h = last.pre
            /\ heap = last.pre
            /\ applied = last.was
            /\ Calls("_resetBoundaryConditionApplied") = {}
            /\ Calls("_buildMatrix") = {}
            /\ \A ev \in SolverCalls \cup {"_storeMatrix"} : Calls(ev) = {}
            /\ last.stored = Unassembled
            /\ last.solved = None
            /\ last.ret = NoneVal
            /\ last.ret2 = NoneVal

\* a build refused for its dt, passed a condition that an earlier build applied, on a
\* term that holds the matrix of that build
RefusedBuildChangesNothingWitness ==
    /\ Refused
    /\ last.err = TypeError
    /\ \E k \in 1..Len(last.args.boundaryConditions.elems) :
            last.was[last.args.boundaryConditions.elems[k]]
    /\ heap[last.self].matrix # NoSystem

\* C25: after a call of getOldAdjacentValues the term tracks, for every interior
\* face, the larger of interiorCFL / volume of the cell on one side and interiorCFL /
\* volume of the cell on the other, interiorCFL being |coefficient| * dt with the dt
\* of that call: the value of the call replaces what was tracked, whatever larger
\* value an earlier call with a longer dt left.
CFLReplaced ==
    vanLeer.op = "getOldAdjacentValues" =>
        /\ vanLeer.err = NoErr
        /\ vanLeer.hasCFL
        /\ DOMAIN vanLeer.CFL = InteriorFaces(vanLeer.mesh)
        /\ \A k \in InteriorFaces(vanLeer.mesh) :
            LET interiorCFL == FloatMul(FloatAbs(vanLeer.coeff[k]), vanLeer.dt)
                over1 == FloatDiv(interiorCFL, vanLeer.mesh.vol[k])
                over2 == FloatDiv(interiorCFL, vanLeer.mesh.vol[k + 1])
            IN  /\ vanLeer.CFL[k] \in {over1, over2}
                /\ ~FloatLess(vanLeer.CFL[k], over1)
                /\ ~FloatLess(vanLeer.CFL[k], over2)

\* the call with the shortest dt on cells of two sizes: the CFL of the smaller cell
CFLReplacedWitness ==
    /\ vanLeer.op = "getOldAdjacentValues"
    /\ vanLeer.mesh = Grid1D(<<PyFloat(1, 1), PyFloat(2, 1)>>)
    /\ vanLeer.coeff = <<PyFloat(-2, 1)>>
    /\ vanLeer.dt = PyFloat(1, 10)
    /\ vanLeer.CFL = <<PyFloat(1, 5)>>

====
